---- MODULE Spec2Model ----
(***************************************************************************)
(* SchedLab event pipeline: the tp_btf probe handlers of schedlab.bpf.c,   *)
(* the ring buffer between them and user space, and the consumer callback  *)
(* handle_event of schedlab_user.c with its per-pid aggregate table.       *)
(*                                                                         *)
(* 64-bit unsigned values are written as integers; a stamp is never later  *)
(* than the clock sample it is subtracted from when handlers run one at a  *)
(* time, so no subtraction wraps in Spec.                                  *)
(*                                                                         *)
(* Spec runs each handler firing as one step. SpecConc runs on_wakeup_btf  *)
(* and on_switch_btf on several CPUs at once, one access to a shared map   *)
(* per step; there a 64-bit value v is written as v below 2^63 and as      *)
(* v - 2^64 from there on, so that sums and differences are those of the   *)
(* integers, and LeU64 compares the values that are meant.                 *)
(***************************************************************************)
EXTENDS Integers, Sequences, FiniteSets, TLC

(* ---------------- bounds of the model ---------------- *)

\* the clock is sampled at most MaxTime ticks after attach
MaxTime == 4
\* records the ring holds before bpf_ringbuf_reserve fails
MaxRing == 2
\* a run of main is followed until the clock stands MaxFirings ticks after attach
MaxFirings == 2
\* records handed to the callback when it is fed records of every kind
MaxEvents == 2

(* ---------------- program constants ---------------- *)

EV_WAKE == 1
EV_SWITCH == 2
EV_EXEC == 3
EV_EXIT == 4
EV_WAITLONG == 6
EV_FORK == 7

\* max_entries of wake_ts, oncpu_ts and agg_by_pid
MAX_ENTRIES == 131072
\* slots of the user-side table agg_tbl
HSIZE == 65536
\* --wait-alert-ms is multiplied by this to give cfg.wait_alert_ns
NS_PER_MS == 1000000

BPF_ANY == "BPF_ANY"
BPF_NOEXIST == "BPF_NOEXIST"

\* enum mode of the consumer; MODE_FORK exists only in the fork build
MODE_STREAM == 0
MODE_LATENCY == 1
MODE_FAIRNESS == 2
MODE_CTX == 3
MODE_TIMELINE == 4
MODE_SHORTLONG == 5
MODE_STARVATION == 6
MODE_FORK == 7

\* errno values ring_buffer__poll is compared with
EINTR == 4
EAGAIN == 11

\* no time yet
None == 0 - 1

(* ---------------- the traced system ---------------- *)

CPUS == {0, 1}
\* task ids other than the per-CPU idle task 0; 1 and 65537 share a slot of agg_tbl
PIDS == {1, 2, 65537}
\* thread-group id of a task: 2 is a non-leader thread of process 1
TGID(p) == IF p = 2 THEN 1 ELSE p
\* the 16-byte name of a task, identified with its owner
Comm(p) == <<"comm", p>>
\* clock advance, in ms, between two samples of bpf_ktime_get_ns
Ticks == {1, 2}
\* values given to --wait-alert-ms and --filter-pid
WaitAlertMs == {0, 2}
FilterPids == {0, 1}
\* what a reserved ring slot holds in a field the handler did not assign
Stale == "stale"

VARIABLES
  cfg_map,      \* the one slot of cfg_map: [wait_alert_ns, sample_filter_pid]
  wake_ts,      \* pid -> last wake timestamp
  oncpu_ts,     \* pid -> last time it began running
  agg_by_pid,   \* pid -> struct agg
  rb,           \* the ring buffer: submitted, not yet consumed records
  agg_tbl,      \* user side: slot -> struct agg_user
  clock,        \* last value returned by bpf_ktime_get_ns
  cur,          \* cpu -> task id on that cpu
  life,         \* task id -> "alive" | "exiting" | "dead"
  fired,        \* the probe firing or consumer step that produced this state
  dropped,      \* some bpf_ringbuf_reserve has failed
  seen,         \* per task id: sums and counts over the records consumed so far
                \* (run, wait, wakes, switches, time of the first EXEC), and the
                \* number of consumed records that name it
  hist,         \* per task id: clock of its last processed wake, switch-in,
                \* switch-out and process exit (None: not yet), the processed wakes
                \* since its last processed switch-in (nw), how many of them that
                \* switch-in found (got), and the clock of the last switch that put it
                \* on a CPU, processed or skipped by the filter (on)
  pc,           \* cpu -> where the handler running on it stands ("idle": none)
  loc,          \* cpu -> the locals of the handler running on it
  build,        \* which consumer was compiled: schedlab_user.c as it stands ("base")
                \* or with the fork-mode changes applied to it ("fork")
  argv,         \* the command line after argv[0]
  g_mode, g_csv, g_csv_header, g_filter_pid, g_wait_alert_ns, g_stop,
  mpc,          \* where main stands
  steps,        \* the setup and teardown calls main has made, in order
  exit_code,    \* what main returned (None: it has not)
  out,          \* the lines written to stdout, in order
  late_polls    \* calls of ring_buffer__poll started with g_stop already set

vars == <<cfg_map, wake_ts, oncpu_ts, agg_by_pid, rb, agg_tbl, clock, cur, life,
          fired, dropped, seen, hist, pc, loc,
          build, argv, g_mode, g_csv, g_csv_header, g_filter_pid, g_wait_alert_ns, g_stop,
          mpc, steps, exit_code, out, late_polls>>

\* the globals of main other than the lines on stdout and the header flag
Globals == <<build, argv, g_mode, g_csv, g_filter_pid, g_wait_alert_ns>>
\* main's own progress
MainVars == <<g_stop, mpc, steps, exit_code, late_polls>>

(* ---------------- BPF map helpers ---------------- *)

Put(m, k, v) == [x \in (DOMAIN m) \cup {k} |-> IF x = k THEN v ELSE m[x]]

\* The tasks of the system that are not among PIDS are not followed one by one: a table
\* records under the key OTHERS how many entries they hold in it (no such key: none).
OTHERS == 0 - 2

\* a table in which n entries belong to other tasks
Occupied(n) == [x \in {OTHERS} |-> n]

\* the number of entries of the table m
Entries(m) ==
  IF OTHERS \in DOMAIN m THEN Cardinality(DOMAIN m) - 1 + m[OTHERS]
                          ELSE Cardinality(DOMAIN m)

\* an update that makes room in a full table by evicting an entry of another task
Mut_update_evicts(m, k, v, flags) ==
  IF k \in DOMAIN m
    THEN (IF flags = BPF_NOEXIST THEN m ELSE Put(m, k, v))
    ELSE IF Entries(m) < MAX_ENTRIES THEN Put(m, k, v)
    ELSE IF OTHERS \in DOMAIN m /\ m[OTHERS] > 0
      THEN Put([m EXCEPT ![OTHERS] = @ - 1], k, v)
    ELSE m

bpf_map_update_elem(m, k, v, flags) ==
  IF k \in DOMAIN m
    THEN (IF flags = BPF_NOEXIST THEN m ELSE Put(m, k, v))
    ELSE (IF Entries(m) < MAX_ENTRIES THEN Put(m, k, v) ELSE m)

\* a delete that leaves the entry in the table
Mut_delete_noop(m, k) == m

bpf_map_delete_elem(m, k) == [x \in (DOMAIN m) \ {k} |-> m[x]]

\* room for one more record in the ring
bpf_ringbuf_reserve(ring) == Len(ring) < MaxRing

bpf_ringbuf_submit(ring, e) == Append(ring, e)

(* ---------------- helpers of schedlab.bpf.c ---------------- *)

cfg_load == cfg_map

\* a filter that lets every pid through
Mut_pass_filter_off(pid) == TRUE

pass_filter(pid) ==
  ~(cfg_load.sample_filter_pid # 0 /\ cfg_load.sample_filter_pid # pid)

ZeroAgg == [total_run_ns |-> 0, total_wait_ns |-> 0, switches |-> 0,
            wakes |-> 0, exec_ts_ns |-> 0]

\* the table after agg_touch(pid); the returned pointer is non-NULL iff pid is a key of it
agg_touch(m, pid) ==
  IF pid \in DOMAIN m THEN m ELSE bpf_map_update_elem(m, pid, ZeroAgg, BPF_NOEXIST)

StaleSw == [prev_pid |-> Stale, next_pid |-> Stale, prev_comm |-> Stale,
            next_comm |-> Stale, run_ns |-> Stale, wait_ns |-> Stale,
            prev_cpu |-> Stale, next_cpu |-> Stale]

\* the kernel-side tables and the ring, as a handler reads and leaves them
KS == [wake_ts |-> wake_ts, oncpu_ts |-> oncpu_ts, agg_by_pid |-> agg_by_pid, rb |-> rb]

Emit(ring, e) == IF bpf_ringbuf_reserve(ring) THEN bpf_ringbuf_submit(ring, e) ELSE ring

(* ---------------- tp_btf handlers ---------------- *)

\* the records the handlers fill in; a field they do not assign is Stale
WakeEvent(now, pid) ==
  [ts_ns |-> now, type |-> EV_WAKE, pid |-> pid, comm |-> Comm(pid), sw |-> StaleSw]

SwitchEvent(now, prev_pid, next_pid, run_ns, wait_ns) ==
  [ts_ns |-> now, type |-> EV_SWITCH, pid |-> next_pid, comm |-> Stale,
   sw |-> [prev_pid |-> prev_pid, next_pid |-> next_pid,
           prev_comm |-> Comm(prev_pid), next_comm |-> Comm(next_pid),
           run_ns |-> run_ns, wait_ns |-> wait_ns,
           prev_cpu |-> Stale, next_cpu |-> Stale]]

\* the record the consumer reads as a wait alert
WaitLongEvent(now, pid) ==
  [ts_ns |-> now, type |-> EV_WAITLONG, pid |-> pid, comm |-> Comm(pid), sw |-> StaleSw]

\* the wake stamp written with BPF_NOEXIST: an unconsumed earlier wake is kept
Mut_on_wakeup_keep_first(st, now, pid) ==
  IF ~pass_filter(pid) THEN st
  ELSE
    LET w1 == bpf_map_update_elem(st.wake_ts, pid, now, BPF_NOEXIST)
        a1 == agg_touch(st.agg_by_pid, pid)
        a2 == IF pid \in DOMAIN a1 THEN [a1 EXCEPT ![pid].wakes = @ + 1] ELSE a1
        e  == WakeEvent(now, pid)
    IN [wake_ts |-> w1, oncpu_ts |-> st.oncpu_ts, agg_by_pid |-> a2,
        rb |-> Emit(st.rb, e)]

\* the ring slot reserved first: a full ring returns before the tables are updated
Mut_on_wakeup_reserve_first(st, now, pid) ==
  IF ~pass_filter(pid) \/ ~bpf_ringbuf_reserve(st.rb) THEN st
  ELSE
    LET w1 == bpf_map_update_elem(st.wake_ts, pid, now, BPF_ANY)
        a1 == agg_touch(st.agg_by_pid, pid)
        a2 == IF pid \in DOMAIN a1 THEN [a1 EXCEPT ![pid].wakes = @ + 1] ELSE a1
        e  == WakeEvent(now, pid)
    IN [wake_ts |-> w1, oncpu_ts |-> st.oncpu_ts, agg_by_pid |-> a2,
        rb |-> Emit(st.rb, e)]

\* the wake stamp written ahead of the filter test
Mut_on_wakeup_filter_late(st, now, pid) ==
  LET w1 == bpf_map_update_elem(st.wake_ts, pid, now, BPF_ANY) IN
  IF ~pass_filter(pid) THEN [st EXCEPT !.wake_ts = w1]
  ELSE
    LET a1 == agg_touch(st.agg_by_pid, pid)
        a2 == IF pid \in DOMAIN a1 THEN [a1 EXCEPT ![pid].wakes = @ + 1] ELSE a1
        e  == WakeEvent(now, pid)
    IN [wake_ts |-> w1, oncpu_ts |-> st.oncpu_ts, agg_by_pid |-> a2,
        rb |-> Emit(st.rb, e)]

on_wakeup_btf(st, now, pid) ==
  IF ~pass_filter(pid) THEN st
  ELSE
    LET w1 == bpf_map_update_elem(st.wake_ts, pid, now, BPF_ANY)
        a1 == agg_touch(st.agg_by_pid, pid)
        a2 == IF pid \in DOMAIN a1 THEN [a1 EXCEPT ![pid].wakes = @ + 1] ELSE a1
        e  == WakeEvent(now, pid)
    IN [wake_ts |-> w1, oncpu_ts |-> st.oncpu_ts, agg_by_pid |-> a2,
        rb |-> Emit(st.rb, e)]

\* run_ns and wait_ns as on_switch_btf computes them
SwitchRunNs(st, now, prev_pid) ==
  IF prev_pid # 0 /\ prev_pid \in DOMAIN st.oncpu_ts
    THEN now - st.oncpu_ts[prev_pid] ELSE 0

SwitchWaitNs(st, now, next_pid) ==
  IF next_pid # 0 /\ next_pid \in DOMAIN st.wake_ts
    THEN now - st.wake_ts[next_pid] ELSE 0

\* a switch handler that reserves a wait alert ahead of the SWITCH record whenever
\* wait_ns has reached cfg.wait_alert_ns, a threshold of 0 included
Mut_on_switch_alert_unguarded(st, now, prev_pid, next_pid) ==
  IF ~pass_filter(next_pid) /\ ~pass_filter(prev_pid) THEN st
  ELSE
    LET run_ns  == SwitchRunNs(st, now, prev_pid)
        wait_ns == SwitchWaitNs(st, now, next_pid)
        w1 == IF next_pid # 0 /\ next_pid \in DOMAIN st.wake_ts
                THEN bpf_map_delete_elem(st.wake_ts, next_pid) ELSE st.wake_ts
        o1 == IF next_pid # 0
                THEN bpf_map_update_elem(st.oncpu_ts, next_pid, now, BPF_ANY)
                ELSE st.oncpu_ts
        a1 == agg_touch(st.agg_by_pid, prev_pid)
        a2 == IF prev_pid \in DOMAIN a1
                THEN [a1 EXCEPT ![prev_pid].total_run_ns = @ + run_ns,
                                ![prev_pid].switches = @ + 1]
                ELSE a1
        a3 == agg_touch(a2, next_pid)
        a4 == IF next_pid \in DOMAIN a3
                THEN [a3 EXCEPT ![next_pid].total_wait_ns = @ + wait_ns,
                                ![next_pid].switches = @ + 1]
                ELSE a3
        r1 == IF wait_ns >= cfg_load.wait_alert_ns
                THEN Emit(st.rb, WaitLongEvent(now, next_pid)) ELSE st.rb
        e  == SwitchEvent(now, prev_pid, next_pid, run_ns, wait_ns)
    IN [wake_ts |-> w1, oncpu_ts |-> o1, agg_by_pid |-> a4, rb |-> Emit(r1, e)]

on_switch_btf(st, now, prev_pid, next_pid) ==
  IF ~pass_filter(next_pid) /\ ~pass_filter(prev_pid) THEN st
  ELSE
    LET run_ns  == SwitchRunNs(st, now, prev_pid)
        wait_ns == SwitchWaitNs(st, now, next_pid)
        w1 == IF next_pid # 0 /\ next_pid \in DOMAIN st.wake_ts
                THEN bpf_map_delete_elem(st.wake_ts, next_pid) ELSE st.wake_ts
        o1 == IF next_pid # 0
                THEN bpf_map_update_elem(st.oncpu_ts, next_pid, now, BPF_ANY)
                ELSE st.oncpu_ts
        a1 == agg_touch(st.agg_by_pid, prev_pid)
        a2 == IF prev_pid \in DOMAIN a1
                THEN [a1 EXCEPT ![prev_pid].total_run_ns = @ + run_ns,
                                ![prev_pid].switches = @ + 1]
                ELSE a1
        a3 == agg_touch(a2, next_pid)
        a4 == IF next_pid \in DOMAIN a3
                THEN [a3 EXCEPT ![next_pid].total_wait_ns = @ + wait_ns,
                                ![next_pid].switches = @ + 1]
                ELSE a3
        e  == SwitchEvent(now, prev_pid, next_pid, run_ns, wait_ns)
    IN [wake_ts |-> w1, oncpu_ts |-> o1, agg_by_pid |-> a4, rb |-> Emit(st.rb, e)]

ForkEvent(now, ppid, cpid) ==
  [ts_ns |-> now, type |-> EV_FORK, pid |-> ppid, comm |-> Comm(ppid),
   sw |-> [prev_pid |-> ppid, next_pid |-> cpid,
           prev_comm |-> Comm(ppid), next_comm |-> Comm(cpid),
           run_ns |-> 0, wait_ns |-> 0,
           prev_cpu |-> Stale, next_cpu |-> Stale]]

\* the fork handler without its filter test: it reserves at once, and leaves comm,
\* run_ns and wait_ns of the record as the slot held them
Mut_on_fork_no_filter(st, now, ppid, cpid) ==
  [st EXCEPT !.rb = Emit(st.rb,
     [ForkEvent(now, ppid, cpid) EXCEPT !.comm = Stale, !.sw.run_ns = Stale,
                                        !.sw.wait_ns = Stale])]

on_fork_btf(st, now, ppid, cpid) ==
  IF ~pass_filter(ppid) THEN st
  ELSE [st EXCEPT !.rb = Emit(st.rb, ForkEvent(now, ppid, cpid))]

ExecEvent(now, pid, task) ==
  [ts_ns |-> now, type |-> EV_EXEC, pid |-> pid, comm |-> Comm(task), sw |-> StaleSw]

ExitEvent(now, pid, tid) ==
  [ts_ns |-> now, type |-> EV_EXIT, pid |-> pid, comm |-> Comm(tid), sw |-> StaleSw]

\* pid is the thread-group id of the current task, task its own id
on_exec_btf(st, now, pid, task) ==
  IF ~pass_filter(pid) THEN st
  ELSE
    LET a1 == agg_touch(st.agg_by_pid, pid)
        a2 == IF pid \in DOMAIN a1 /\ a1[pid].exec_ts_ns = 0
                THEN [a1 EXCEPT ![pid].exec_ts_ns = now] ELSE a1
        e  == ExecEvent(now, pid, task)
    IN [st EXCEPT !.agg_by_pid = a2, !.rb = Emit(st.rb, e)]

\* an exit handler that forgets the on-CPU stamp
Mut_on_exit_keep_oncpu(st, now, pid, tid) ==
  IF pid # tid \/ ~pass_filter(pid) THEN st
  ELSE
    LET w1 == bpf_map_delete_elem(st.wake_ts, pid)
        e  == [ts_ns |-> now, type |-> EV_EXIT, pid |-> pid, comm |-> Comm(tid),
               sw |-> StaleSw]
    IN [st EXCEPT !.wake_ts = w1, !.rb = Emit(st.rb, e)]

\* an exit handler that also deletes the aggregate
Mut_on_exit_drop_agg(st, now, pid, tid) ==
  IF pid # tid \/ ~pass_filter(pid) THEN st
  ELSE
    LET w1 == bpf_map_delete_elem(st.wake_ts, pid)
        o1 == bpf_map_delete_elem(st.oncpu_ts, pid)
        e  == [ts_ns |-> now, type |-> EV_EXIT, pid |-> pid, comm |-> Comm(tid),
               sw |-> StaleSw]
    IN [st EXCEPT !.wake_ts = w1, !.oncpu_ts = o1,
                  !.agg_by_pid = bpf_map_delete_elem(st.agg_by_pid, pid),
                  !.rb = Emit(st.rb, e)]

\* an exit handler without the thread-group-leader test
Mut_on_exit_any_thread(st, now, pid, tid) ==
  IF ~pass_filter(pid) THEN st
  ELSE
    LET w1 == bpf_map_delete_elem(st.wake_ts, pid)
        o1 == bpf_map_delete_elem(st.oncpu_ts, pid)
    IN [st EXCEPT !.wake_ts = w1, !.oncpu_ts = o1,
                  !.rb = Emit(st.rb, ExitEvent(now, pid, tid))]

\* pid and tid are the halves of bpf_get_current_pid_tgid()
on_exit_btf(st, now, pid, tid) ==
  IF pid # tid \/ ~pass_filter(pid) THEN st
  ELSE
    LET w1 == bpf_map_delete_elem(st.wake_ts, pid)
        o1 == bpf_map_delete_elem(st.oncpu_ts, pid)
        e  == ExitEvent(now, pid, tid)
    IN [st EXCEPT !.wake_ts = w1, !.oncpu_ts = o1, !.rb = Emit(st.rb, e)]

(* ---------------- user side: schedlab_user.c ---------------- *)

A(pid) == pid % HSIZE

Slots == {A(p) : p \in PIDS \cup {0}}

ZeroUser == [total_run_ns |-> 0, total_wait_ns |-> 0, switches |-> 0, wakes |-> 0,
             first_exec_ns |-> 0, last_seen_ns |-> 0]

\* the aggregate part of handle_event
handle_event(tbl, e) ==
  LET t1 == IF e.type = EV_EXEC
              THEN (IF tbl[A(e.pid)].first_exec_ns = 0
                      THEN [tbl EXCEPT ![A(e.pid)].first_exec_ns = e.ts_ns] ELSE tbl)
            ELSE IF e.type = EV_SWITCH
              THEN LET s1 == [tbl EXCEPT ![A(e.sw.prev_pid)].total_run_ns = @ + e.sw.run_ns]
                       s2 == [s1 EXCEPT ![A(e.sw.next_pid)].total_wait_ns = @ + e.sw.wait_ns]
                       s3 == [s2 EXCEPT ![A(e.sw.prev_pid)].switches = @ + 1]
                   IN [s3 EXCEPT ![A(e.sw.next_pid)].switches = @ + 1]
            ELSE IF e.type = EV_WAKE
              THEN [tbl EXCEPT ![A(e.pid)].wakes = @ + 1]
            ELSE tbl
  IN [t1 EXCEPT ![A(e.pid)].last_seen_ns = e.ts_ns]

BUILDS == {"base", "fork"}

\* mode_names: seven names in schedlab_user.c, eight with the fork-mode changes
mode_names(b) ==
  <<"stream", "latency", "fairness", "ctx", "timeline", "shortlong", "starvation">>
    \o (IF b = "fork" THEN <<"fork">> ELSE << >>)

\* the index of the first name equal to s, MODE_STREAM when there is none
parse_mode(s, b) ==
  IF \E i \in 1..Len(mode_names(b)) : mode_names(b)[i] = s
    THEN (CHOOSE i \in 1..Len(mode_names(b)) :
            /\ mode_names(b)[i] = s
            /\ \A j \in 1..(i - 1) : mode_names(b)[j] # s) - 1
    ELSE MODE_STREAM

\* the decimal strings the command lines of the model use
NumTok == <<"0", "1", "2">>

\* atoi and atoll: the value of a decimal string, 0 for anything else
Atoi(tok) ==
  IF \E i \in 1..Len(NumTok) : NumTok[i] = tok
    THEN (CHOOSE i \in 1..Len(NumTok) : NumTok[i] = tok) - 1
    ELSE 0

\* the globals as they are initialised
DefaultGlobals == [g_mode |-> MODE_STREAM, g_csv |-> 0, g_csv_header |-> 0,
                   g_filter_pid |-> 0, g_wait_alert_ns |-> 5 * NS_PER_MS]

\* the argument loop of main from argv[i] on: the globals it leaves and whether it
\* reached the end (ok) or printed the usage and returned 1
RECURSIVE ParseArgs(_, _, _, _)
ParseArgs(av, i, g, b) ==
  IF i > Len(av) THEN [ok |-> TRUE, g |-> g]
  ELSE IF av[i] = "--mode" /\ i + 1 <= Len(av)
    THEN ParseArgs(av, i + 2, [g EXCEPT !.g_mode = parse_mode(av[i + 1], b)], b)
  ELSE IF av[i] = "--filter-pid" /\ i + 1 <= Len(av)
    THEN ParseArgs(av, i + 2, [g EXCEPT !.g_filter_pid = Atoi(av[i + 1])], b)
  ELSE IF av[i] = "--wait-alert-ms" /\ i + 1 <= Len(av)
    THEN ParseArgs(av, i + 2,
                   [g EXCEPT !.g_wait_alert_ns = Atoi(av[i + 1]) * NS_PER_MS], b)
  ELSE IF av[i] = "--csv" THEN ParseArgs(av, i + 1, [g EXCEPT !.g_csv = 1], b)
  ELSE IF av[i] = "--csv-header"
    THEN ParseArgs(av, i + 1, [g EXCEPT !.g_csv_header = 1], b)
  ELSE [ok |-> FALSE, g |-> g]

\* a configuration record whose filter pid is left out
Mut_cfg_no_filter(w, f) == [wait_alert_ns |-> w, sample_filter_pid |-> 0]

\* struct cfg c = {.wait_alert_ns = g_wait_alert_ns, .sample_filter_pid = g_filter_pid}
CfgRecord(w, f) == [wait_alert_ns |-> w, sample_filter_pid |-> f]

\* a line on stdout: the format that wrote it and the values it printed
Line(fmt, cols) == [fmt |-> fmt, cols |-> cols]

\* the header line of a mode
Header(mode) ==
  Line("header",
    CASE mode = MODE_STREAM -> <<"ts_ns,type,pid,comm,prev_pid,next_pid,run_ns,wait_ns">>
      [] mode = MODE_LATENCY -> <<"ts_ns,pid,latency_ns">>
      [] mode = MODE_FAIRNESS -> <<"pid,run_ms,wait_ms,switches">>
      [] mode = MODE_CTX -> <<"ts_ns,prev_pid,next_pid,run_ns">>
      [] mode = MODE_TIMELINE -> <<"ts_ns,pid,event,wait_ns,run_prev_ns">>
      [] mode = MODE_SHORTLONG -> <<"pid,lifetime_ms,wakes,switches">>
      [] mode = MODE_STARVATION -> <<"ts_ns,pid,event">>
      [] mode = MODE_FORK -> <<"ts_ns,parent_pid,child_pid">>)

\* a header that is printed on every call
Mut_header_every_call(o, csv, hdr, mode) ==
  IF csv = 0 \/ hdr = 0 THEN [out |-> o, g_csv_header |-> hdr]
  ELSE [out |-> Append(o, Header(mode)), g_csv_header |-> hdr]

\* print_csv_header_once: stdout and g_csv_header after the call
print_csv_header_once(o, csv, hdr, mode) ==
  IF csv = 0 \/ hdr = 0 THEN [out |-> o, g_csv_header |-> hdr]
  ELSE [out |-> Append(o, Header(mode)), g_csv_header |-> 0]

\* x / 1e6 printed with %.6f: the milliseconds and the six decimals
Ms(x) == <<x \div NS_PER_MS, x % NS_PER_MS>>

\* last_seen_ns - first_exec_ns when positive, else 0
Lifetime(ax) ==
  IF ax.last_seen_ns > ax.first_exec_ns THEN ax.last_seen_ns - ax.first_exec_ns ELSE 0

\* the human-readable branch of handle_event: the lines it writes for e
ProjectText(mode, e, tbl) ==
  CASE mode = MODE_STREAM ->
         (CASE e.type = EV_WAKE -> <<Line("[wake]", <<e.pid, e.comm>>)>>
            [] e.type = EV_SWITCH ->
                 <<Line("[switch]", <<e.sw.prev_pid, e.sw.prev_comm, e.sw.next_pid,
                                      e.sw.next_comm, e.sw.run_ns, e.sw.wait_ns>>)>>
            [] e.type = EV_EXEC -> <<Line("[exec]", <<e.pid, e.comm>>)>>
            [] e.type = EV_EXIT -> <<Line("[exit]", <<e.pid, e.comm>>)>>
            [] e.type = EV_WAITLONG -> <<Line("[wait-alert]", <<e.pid, e.comm>>)>>
            [] OTHER -> << >>)
    [] mode = MODE_LATENCY ->
         IF e.type = EV_SWITCH
           THEN <<Line("latency_ns", <<e.sw.next_pid, e.sw.wait_ns>>)>> ELSE << >>
    [] mode = MODE_FAIRNESS ->
         IF e.type = EV_SWITCH
           THEN LET an == tbl[A(e.sw.next_pid)]
                IN <<Line("fair", <<e.sw.next_pid, Ms(an.total_run_ns),
                                    Ms(an.total_wait_ns), an.switches>>)>>
           ELSE << >>
    [] mode = MODE_CTX ->
         IF e.type = EV_SWITCH
           THEN <<Line("ctxswitch", <<e.sw.prev_pid, e.sw.next_pid, e.sw.run_ns>>)>>
           ELSE << >>
    [] mode = MODE_TIMELINE ->
         (CASE e.type = EV_WAKE -> <<Line("T WAKE", <<e.pid>>)>>
            [] e.type = EV_SWITCH ->
                 <<Line("T SWITCH", <<e.sw.next_pid, e.sw.wait_ns, e.sw.run_ns>>)>>
            [] e.type = EV_EXEC -> <<Line("T EXEC", <<e.pid>>)>>
            [] e.type = EV_EXIT -> <<Line("T EXIT", <<e.pid>>)>>
            [] OTHER -> << >>)
    [] mode = MODE_SHORTLONG ->
         IF e.type = EV_EXIT
           THEN LET ax == tbl[A(e.pid)]
                IN <<Line("lifetime", <<e.pid, Ms(Lifetime(ax)), ax.wakes, ax.switches>>)>>
           ELSE << >>
    [] mode = MODE_STARVATION ->
         IF e.type = EV_WAITLONG THEN <<Line("starvation_alert", <<e.pid>>)>> ELSE << >>
    [] OTHER -> << >>

\* the CSV branch of handle_event
ProjectCsv(mode, e, tbl) ==
  CASE mode = MODE_STREAM ->
         (CASE e.type = EV_SWITCH ->
                 <<Line("csv switch", <<e.ts_ns, e.pid, e.comm, e.sw.prev_pid,
                                        e.sw.next_pid, e.sw.run_ns, e.sw.wait_ns>>)>>
            [] e.type = EV_WAKE -> <<Line("csv wake", <<e.ts_ns, e.pid, e.comm>>)>>
            [] e.type = EV_EXEC -> <<Line("csv exec", <<e.ts_ns, e.pid, e.comm>>)>>
            [] e.type = EV_EXIT -> <<Line("csv exit", <<e.ts_ns, e.pid, e.comm>>)>>
            [] e.type = EV_WAITLONG ->
                 <<Line("csv wait_alert", <<e.ts_ns, e.pid, e.comm>>)>>
            [] OTHER -> << >>)
    [] mode = MODE_LATENCY ->
         IF e.type = EV_SWITCH
           THEN <<Line("csv latency", <<e.ts_ns, e.sw.next_pid, e.sw.wait_ns>>)>>
           ELSE << >>
    [] mode = MODE_FAIRNESS ->
         IF e.type = EV_SWITCH
           THEN LET an == tbl[A(e.sw.next_pid)]
                IN <<Line("csv fair", <<e.sw.next_pid, Ms(an.total_run_ns),
                                        Ms(an.total_wait_ns), an.switches>>)>>
           ELSE << >>
    [] mode = MODE_CTX ->
         IF e.type = EV_SWITCH
           THEN <<Line("csv ctx", <<e.ts_ns, e.sw.prev_pid, e.sw.next_pid, e.sw.run_ns>>)>>
           ELSE << >>
    [] mode = MODE_TIMELINE ->
         (CASE e.type = EV_WAKE -> <<Line("csv WAKE", <<e.ts_ns, e.pid>>)>>
            [] e.type = EV_SWITCH ->
                 <<Line("csv SWITCH", <<e.ts_ns, e.sw.next_pid, e.sw.wait_ns,
                                        e.sw.run_ns>>)>>
            [] e.type = EV_EXEC -> <<Line("csv EXEC", <<e.ts_ns, e.pid>>)>>
            [] e.type = EV_EXIT -> <<Line("csv EXIT", <<e.ts_ns, e.pid>>)>>
            [] OTHER -> << >>)
    [] mode = MODE_SHORTLONG ->
         IF e.type = EV_EXIT
           THEN LET ax == tbl[A(e.pid)]
                IN <<Line("csv lifetime",
                          <<e.pid, Ms(Lifetime(ax)), ax.wakes, ax.switches>>)>>
           ELSE << >>
    [] mode = MODE_STARVATION ->
         IF e.type = EV_WAITLONG
           THEN <<Line("csv starvation", <<e.ts_ns, e.pid>>)>> ELSE << >>
    [] OTHER -> << >>

\* a projection in which latency mode also writes a row for a WAKE record
Mut_project_wake_row(b, mode, csv, e, tbl) ==
  IF mode = MODE_LATENCY /\ e.type = EV_WAKE
    THEN <<Line("latency_ns", <<e.pid, 0>>)>>
    ELSE IF csv = 0 THEN ProjectText(mode, e, tbl) ELSE ProjectCsv(mode, e, tbl)

\* the lines handle_event writes for e after the header; tbl is agg_tbl as the
\* aggregate part has left it. The fork build returns from its own branch first.
Project(b, mode, csv, e, tbl) ==
  IF b = "fork" /\ csv # 0 /\ mode = MODE_FORK /\ e.type = EV_FORK
    THEN <<Line("csv fork", <<e.ts_ns, e.sw.prev_pid, e.sw.next_pid>>)>>
    ELSE IF csv = 0 THEN ProjectText(mode, e, tbl) ELSE ProjectCsv(mode, e, tbl)

\* what the callback reads and writes on the user side
US == [agg_tbl |-> agg_tbl, out |-> out, g_csv_header |-> g_csv_header, seen |-> seen]

\* the sums and counts the ghost variable seen keeps, after one more consumed record:
\* per task id, not per slot of agg_tbl
Seen(sn, e) ==
  IF e.type = EV_SWITCH
    THEN LET s1 == [sn EXCEPT ![e.sw.prev_pid].run = @ + e.sw.run_ns,
                              ![e.sw.prev_pid].switches = @ + 1,
                              ![e.sw.prev_pid].n = @ + 1]
         IN [s1 EXCEPT ![e.sw.next_pid].wait = @ + e.sw.wait_ns,
                       ![e.sw.next_pid].switches = @ + 1,
                       ![e.sw.next_pid].n = @ + 1]
    ELSE IF e.type = EV_WAKE
      THEN [sn EXCEPT ![e.pid].wakes = @ + 1, ![e.pid].n = @ + 1]
    ELSE IF e.type = EV_EXEC /\ sn[e.pid].exec = None
      THEN [sn EXCEPT ![e.pid].exec = e.ts_ns, ![e.pid].n = @ + 1]
    ELSE [sn EXCEPT ![e.pid].n = @ + 1]

\* one call of handle_event: aggregates, header, projection
Callback(u, e) ==
  LET t == handle_event(u.agg_tbl, e)
      h == print_csv_header_once(u.out, g_csv, u.g_csv_header, g_mode)
  IN [agg_tbl |-> t,
      out |-> h.out \o Project(build, g_mode, g_csv, e, t),
      g_csv_header |-> h.g_csv_header,
      seen |-> Seen(u.seen, e)]

\* ring_buffer__poll calls handle_event on every record of the ring, oldest first
RECURSIVE Drain(_, _)
Drain(u, ring) == IF ring = << >> THEN u ELSE Drain(Callback(u, Head(ring)), Tail(ring))

(* ---------------- initial state: probes attached, cfg_map written ---------------- *)

Empty == [x \in {} |-> 0]

NoLocals == [op |-> "none", now |-> 0, prev |-> 0, next |-> 0, run_ns |-> 0,
             wait_ns |-> 0, stage |-> "none", key |-> 0, tmp |-> 0]

NoFiring == [op |-> "none", cpu |-> 0, now |-> 0, pid |-> 0, prev |-> 0, next |-> 0,
             passed |-> FALSE, ok |-> FALSE, run_ns |-> 0, wait_ns |-> 0, err |-> 0,
             rec |-> << >>]

\* nothing has fired and nothing has been consumed
Fresh ==
  /\ wake_ts = Empty
  /\ oncpu_ts = Empty
  /\ agg_by_pid = Empty
  /\ rb = << >>
  /\ agg_tbl = [s \in Slots |-> ZeroUser]
  /\ clock = 0
  /\ life = [p \in PIDS |-> IF p = 2 THEN "dead" ELSE "alive"]
  /\ fired = NoFiring
  /\ dropped = FALSE
  /\ seen = [p \in PIDS \cup {0} |->
               [run |-> 0, wait |-> 0, n |-> 0, wakes |-> 0, switches |-> 0, exec |-> None]]
  /\ hist = [p \in PIDS |-> [wake |-> None, in |-> None, out |-> None, exit |-> None,
                              nw |-> 0, got |-> 0, on |-> None]]
  /\ pc = [c \in CPUS |-> "idle"]
  /\ loc = [c \in CPUS |-> NoLocals]
  /\ out = << >>
  /\ late_polls = 0
  /\ g_stop = 0
  /\ exit_code = None

\* the globals are those the argument loop leaves for the command line av
Parsed(av) ==
  LET r == ParseArgs(av, 1, DefaultGlobals, build) IN
  /\ r.ok
  /\ argv = av
  /\ g_mode = r.g.g_mode
  /\ g_csv = r.g.g_csv
  /\ g_csv_header = r.g.g_csv_header
  /\ g_filter_pid = r.g.g_filter_pid
  /\ g_wait_alert_ns = r.g.g_wait_alert_ns

\* setup is done: the consumer of schedlab_user.c sits in its poll loop, in
\* starvation mode, whose projection writes a line for none of the kinds the probes emit
Init ==
  /\ Fresh
  /\ build = "base"
  /\ \E ms \in WaitAlertMs, f \in FilterPids :
       Parsed(<<"--mode", "starvation", "--filter-pid", NumTok[f + 1],
                "--wait-alert-ms", NumTok[ms + 1]>>)
  /\ cfg_map = CfgRecord(g_wait_alert_ns, g_filter_pid)
  /\ cur \in {[c \in CPUS |-> 0], [c \in CPUS |-> IF c = 0 THEN 1 ELSE 0]}
  /\ mpc = "polling"
  /\ steps = <<"load", "cfg", "attach", "ring">>

(* ---------------- actions ---------------- *)

\* one sample of bpf_ktime_get_ns
Samples == {t \in {clock + d * NS_PER_MS : d \in Ticks} : t <= MaxTime * NS_PER_MS}

Running == {cur[c] : c \in CPUS}

\* the tables and the ring become those of r; the ghost variables record the firing
Fire(r, f, now, passed, h) ==
  /\ wake_ts' = r.wake_ts
  /\ oncpu_ts' = r.oncpu_ts
  /\ agg_by_pid' = r.agg_by_pid
  /\ rb' = r.rb
  /\ clock' = now
  /\ fired' = [f EXCEPT !.now = now, !.passed = passed,
                        !.ok = (passed /\ bpf_ringbuf_reserve(rb))]
  /\ dropped' = (dropped \/ (passed /\ ~bpf_ringbuf_reserve(rb)))
  /\ hist' = [q \in PIDS |->
                [(IF passed THEN h ELSE hist)[q] EXCEPT
                   !.on = IF f.op = "switch" /\ f.next = q THEN now ELSE hist[q].on]]
  /\ UNCHANGED <<cfg_map, agg_tbl, seen, pc, loc, Globals, g_csv_header, out, MainVars>>

Wakeup(p) ==
  /\ life[p] # "dead"
  /\ \E now \in Samples :
       Fire(on_wakeup_btf(KS, now, p),
               [NoFiring EXCEPT !.op = "wake", !.pid = p], now, pass_filter(p),
               [hist EXCEPT ![p].wake = now, ![p].nw = @ + 1])
  /\ UNCHANGED <<cur, life>>

Switch(c, next, final) ==
  LET prev == cur[c] IN
  /\ next # prev
  /\ next # 0 => (life[next] # "dead" /\ next \notin Running)
  /\ final => (prev # 0 /\ life[prev] = "exiting")
  /\ \E now \in Samples :
       Fire(on_switch_btf(KS, now, prev, next),
               [NoFiring EXCEPT !.op = "switch", !.cpu = c, !.pid = next,
                                !.prev = prev, !.next = next,
                                !.run_ns = SwitchRunNs(KS, now, prev),
                                !.wait_ns = SwitchWaitNs(KS, now, next)],
               now, pass_filter(next) \/ pass_filter(prev),
               [q \in PIDS |-> IF q = next
                                 THEN [hist[q] EXCEPT !.in = now, !.got = hist[q].nw,
                                                      !.nw = 0]
                               ELSE IF q = prev THEN [hist[q] EXCEPT !.out = now]
                               ELSE hist[q]])
  /\ cur' = [cur EXCEPT ![c] = next]
  /\ life' = IF final THEN [life EXCEPT ![prev] = "dead"] ELSE life

Exec(c) ==
  LET p == cur[c] IN
  /\ p # 0 /\ life[p] = "alive" /\ TGID(p) = p
  /\ \E now \in Samples :
       Fire(on_exec_btf(KS, now, TGID(p), p),
               [NoFiring EXCEPT !.op = "exec", !.cpu = c, !.pid = TGID(p)],
               now, pass_filter(TGID(p)), hist)
  /\ UNCHANGED <<cur, life>>

Exit(c) ==
  LET p == cur[c] IN
  /\ p # 0 /\ life[p] = "alive"
  /\ \E now \in Samples :
       Fire(on_exit_btf(KS, now, TGID(p), p),
               [NoFiring EXCEPT !.op = "exit", !.cpu = c, !.pid = TGID(p), !.prev = p],
               now, TGID(p) = p /\ pass_filter(TGID(p)),
               [hist EXCEPT ![p].exit = now])
  /\ life' = [life EXCEPT ![p] = "exiting"]
  /\ UNCHANGED cur

Fork(c, child) ==
  LET parent == cur[c] IN
  /\ parent # 0 /\ life[parent] = "alive"
  /\ life[child] = "dead"
  /\ TGID(child) # child => TGID(child) = TGID(parent)
  /\ \E now \in Samples :
       Fire(on_fork_btf(KS, now, parent, child),
               [NoFiring EXCEPT !.op = "fork", !.cpu = c, !.pid = parent,
                                !.prev = parent, !.next = child],
               now, pass_filter(parent), hist)
  /\ life' = [life EXCEPT ![child] = "alive"]
  /\ UNCHANGED cur

\* ring_buffer__poll hands the oldest record to handle_event
Consume ==
  /\ rb # << >>
  /\ LET e == Head(rb)
         u == Callback(US, e)
     IN /\ agg_tbl' = u.agg_tbl
        /\ out' = u.out
        /\ g_csv_header' = u.g_csv_header
        /\ seen' = u.seen
        /\ fired' = [NoFiring EXCEPT !.op = "consume", !.pid = e.pid, !.now = e.ts_ns]
  /\ rb' = Tail(rb)
  /\ UNCHANGED <<cfg_map, wake_ts, oncpu_ts, agg_by_pid, clock, cur, life, dropped, hist,
                  pc, loc, Globals, MainVars>>

Next ==
  \/ \E p \in PIDS : Wakeup(p)
  \/ \E c \in CPUS, next \in PIDS \cup {0}, final \in BOOLEAN : Switch(c, next, final)
  \/ \E c \in CPUS : Exec(c)
  \/ \E c \in CPUS : Exit(c)
  \/ \E c \in CPUS, child \in PIDS : Fork(c, child)
  \/ Consume

Spec == Init /\ [][Next]_vars

(* ---------------- main of the consumer, from its first statement ---------------- *)

ModeTokens == {"stream", "latency", "fairness", "ctx", "timeline", "shortlong",
               "starvation", "fork", "nosuch"}

FlagSets == {<< >>, <<"--csv">>, <<"--csv-header">>, <<"--csv", "--csv-header">>}

\* the command lines of the model; the last three are malformed
ARGVS ==
  {<<"--mode", m>> \o f : m \in ModeTokens, f \in FlagSets}
    \cup {<<"--filter-pid", "1", "--wait-alert-ms", "2">>,
          <<"--bogus">>, <<"--mode">>, <<"--csv", "--filter-pid">>}

\* the results of ring_buffer__poll other than a count of records
PollErrors == {0 - EINTR, 0 - EAGAIN, 0 - (EAGAIN + 1)}

\* the probes are attached and the skeleton has not been destroyed
Attached ==
  /\ \E i \in 1..Len(steps) : steps[i] = "attach"
  /\ \A i \in 1..Len(steps) : steps[i] # "destroy"

KernelVars == <<wake_ts, oncpu_ts, agg_by_pid, rb, clock, cur, life, fired, dropped,
                hist, pc, loc>>

\* the process is started: nothing is loaded, the slot of cfg_map will be created zeroed
InitMain ==
  /\ Fresh
  /\ build \in BUILDS
  /\ argv \in ARGVS
  /\ g_mode = DefaultGlobals.g_mode
  /\ g_csv = DefaultGlobals.g_csv
  /\ g_csv_header = DefaultGlobals.g_csv_header
  /\ g_filter_pid = DefaultGlobals.g_filter_pid
  /\ g_wait_alert_ns = DefaultGlobals.g_wait_alert_ns
  /\ cfg_map = CfgRecord(0, 0)
  /\ cur = [c \in CPUS |-> IF c = 0 THEN 1 ELSE 0]
  /\ mpc = "args"
  /\ steps = << >>

\* a failing setup call that returns 1 whatever the call was
Mut_fail_code_one(step, code) ==
  /\ steps' = steps \o (IF code = 2 THEN <<step>> ELSE <<step, "destroy">>)
  /\ exit_code' = 1
  /\ mpc' = "exited"

\* a setup call that fails: diagnostic, schedlab_bpf__destroy once the skeleton
\* exists, return code
Fail(step, code) ==
  /\ steps' = steps \o (IF code = 2 THEN <<step>> ELSE <<step, "destroy">>)
  /\ exit_code' = code
  /\ mpc' = "exited"

\* the argument loop, then signal(SIGINT, on_sig) and signal(SIGTERM, on_sig)
MainArgs ==
  /\ mpc = "args"
  /\ LET r == ParseArgs(argv, 1, DefaultGlobals, build) IN
       /\ g_mode' = r.g.g_mode
       /\ g_csv' = r.g.g_csv
       /\ g_csv_header' = r.g.g_csv_header
       /\ g_filter_pid' = r.g.g_filter_pid
       /\ g_wait_alert_ns' = r.g.g_wait_alert_ns
       /\ IF r.ok THEN mpc' = "load" /\ exit_code' = exit_code
                  ELSE mpc' = "exited" /\ exit_code' = 1
  /\ UNCHANGED <<KernelVars, cfg_map, agg_tbl, seen, out, build, argv, g_stop, steps,
                 late_polls>>

\* schedlab_bpf__open_and_load
MainLoad ==
  /\ mpc = "load"
  /\ \E ok \in BOOLEAN :
       IF ok THEN steps' = Append(steps, "load") /\ mpc' = "cfg" /\ exit_code' = exit_code
             ELSE Fail("load_failed", 2)
  /\ UNCHANGED <<KernelVars, cfg_map, agg_tbl, seen, out, g_csv_header, Globals, g_stop,
                 late_polls>>

\* bpf_map_update_elem(cfg_map fd, &k, &c, BPF_ANY)
MainCfg ==
  /\ mpc = "cfg"
  /\ \E ok \in BOOLEAN :
       IF ok THEN /\ cfg_map' = CfgRecord(g_wait_alert_ns, g_filter_pid)
                  /\ steps' = Append(steps, "cfg") /\ mpc' = "attach"
                  /\ exit_code' = exit_code
             ELSE Fail("cfg_failed", 3) /\ cfg_map' = cfg_map
  /\ UNCHANGED <<KernelVars, agg_tbl, seen, out, g_csv_header, Globals, g_stop, late_polls>>

\* schedlab_bpf__attach
MainAttach ==
  /\ mpc = "attach"
  /\ \E ok \in BOOLEAN :
       IF ok THEN steps' = Append(steps, "attach") /\ mpc' = "ring"
                  /\ exit_code' = exit_code
             ELSE Fail("attach_failed", 4)
  /\ UNCHANGED <<KernelVars, cfg_map, agg_tbl, seen, out, g_csv_header, Globals, g_stop,
                 late_polls>>

\* ring_buffer__new
MainRing ==
  /\ mpc = "ring"
  /\ \E ok \in BOOLEAN :
       IF ok THEN steps' = Append(steps, "ring") /\ mpc' = "banner"
                  /\ exit_code' = exit_code
             ELSE Fail("ring_failed", 5)
  /\ UNCHANGED <<KernelVars, cfg_map, agg_tbl, seen, out, g_csv_header, Globals, g_stop,
                 late_polls>>

\* the banner on stderr or, with --csv, the first call of print_csv_header_once
MainBanner ==
  /\ mpc = "banner"
  /\ LET h == IF g_csv = 0 THEN [out |-> out, g_csv_header |-> g_csv_header]
              ELSE print_csv_header_once(out, g_csv, g_csv_header, g_mode)
     IN out' = h.out /\ g_csv_header' = h.g_csv_header
  /\ mpc' = "test"
  /\ UNCHANGED <<KernelVars, cfg_map, agg_tbl, seen, Globals, g_stop, steps, exit_code,
                 late_polls>>

\* a loop test that never sees the flag
Mut_loop_forever(stop) == "poll"

\* while (!g_stop): into the body, or past the loop
LoopTest(stop) == IF stop = 0 THEN "poll" ELSE "free"

MainTest ==
  /\ mpc = "test"
  /\ mpc' = LoopTest(g_stop)
  /\ UNCHANGED <<KernelVars, cfg_map, agg_tbl, seen, out, g_csv_header, Globals, g_stop,
                 steps, exit_code, late_polls>>

\* ring_buffer__poll(rb, 200) is entered
MainPollStart ==
  /\ mpc = "poll"
  /\ mpc' = "polling"
  /\ late_polls' = late_polls + (IF g_stop # 0 THEN 1 ELSE 0)
  /\ UNCHANGED <<KernelVars, cfg_map, agg_tbl, seen, out, g_csv_header, Globals, g_stop,
                 steps, exit_code>>

\* a loop body that breaks on every negative result
Mut_eagain_breaks(err) == IF err < 0 THEN "free" ELSE "test"

\* if (err == -EINTR) break; if (err < 0 && err != -EAGAIN) { ...; break; }
LoopBody(err) ==
  IF err = 0 - EINTR \/ (err < 0 /\ err # 0 - EAGAIN) THEN "free" ELSE "test"

\* ring_buffer__poll returns err: the count of the records it handed to handle_event,
\* or an error before any; then the two tests of the loop body
MainPollReturn(err) ==
  /\ mpc = "polling"
  /\ IF err >= 0
       THEN LET u == Drain(US, rb) IN
              /\ err = Len(rb)
              /\ agg_tbl' = u.agg_tbl /\ out' = u.out
              /\ g_csv_header' = u.g_csv_header /\ seen' = u.seen
              /\ rb' = << >>
       ELSE UNCHANGED <<agg_tbl, out, g_csv_header, seen, rb>>
  /\ mpc' = LoopBody(err)
  /\ fired' = [NoFiring EXCEPT !.op = "poll", !.err = err]
  /\ UNCHANGED <<wake_ts, oncpu_ts, agg_by_pid, clock, cur, life, dropped, hist, pc, loc,
                 cfg_map, Globals, g_stop, steps, exit_code, late_polls>>

\* ring_buffer__free(rb)
MainFree ==
  /\ mpc = "free"
  /\ steps' = Append(steps, "free")
  /\ mpc' = "destroy"
  /\ UNCHANGED <<KernelVars, cfg_map, agg_tbl, seen, out, g_csv_header, Globals, g_stop,
                 exit_code, late_polls>>

\* schedlab_bpf__destroy(skel); return 0
MainDestroy ==
  /\ mpc = "destroy"
  /\ steps' = Append(steps, "destroy")
  /\ exit_code' = 0
  /\ mpc' = "exited"
  /\ UNCHANGED <<KernelVars, cfg_map, agg_tbl, seen, out, g_csv_header, Globals, g_stop,
                 late_polls>>

\* on_sig, once main has installed it
Signal ==
  /\ mpc \notin {"args", "exited"}
  /\ g_stop' = 1
  /\ UNCHANGED <<KernelVars, cfg_map, agg_tbl, seen, out, g_csv_header, Globals, mpc,
                 steps, exit_code, late_polls>>

\* the attached probes fire on the traced system
ProbesFire ==
  /\ Attached
  /\ clock < MaxFirings * NS_PER_MS
  /\ \/ Wakeup(1)
     \/ \E next \in {0, 1} : Switch(0, next, FALSE)
     \/ Fork(0, 2)

MainThread ==
  \/ MainArgs
  \/ MainLoad
  \/ MainCfg
  \/ MainAttach
  \/ MainRing
  \/ MainBanner
  \/ MainTest
  \/ MainPollStart
  \/ \E err \in PollErrors \cup {Len(rb)} : MainPollReturn(err)
  \/ MainFree
  \/ MainDestroy

NextMain ==
  \/ MainThread
  \/ Signal
  \/ ProbesFire

SpecMain == InitMain /\ [][NextMain]_vars

\* the main thread is scheduled and every call it makes returns
SpecMainFair == SpecMain /\ WF_vars(MainThread)

(* ---------------- the callback fed records of every kind ---------------- *)

\* one record of each kind the consumer knows or the probes emit, stamped ts
Records(ts) ==
  {WakeEvent(ts, 1), SwitchEvent(ts, 1, 65537, NS_PER_MS, 2 * NS_PER_MS),
   ExecEvent(ts, 1, 1), ExitEvent(ts, 1, 1), WaitLongEvent(ts, 1), ForkEvent(ts, 1, 2)}

\* setup has succeeded for a well-formed command line; the banner comes next
InitEvents ==
  /\ Fresh
  /\ build \in BUILDS
  /\ \E av \in ARGVS : Parsed(av)
  /\ cfg_map = CfgRecord(g_wait_alert_ns, g_filter_pid)
  /\ cur = [c \in CPUS |-> IF c = 0 THEN 1 ELSE 0]
  /\ mpc = "banner"
  /\ steps = <<"load", "cfg", "attach", "ring">>

\* ring_buffer__poll hands the record e to handle_event
Deliver(e) ==
  /\ mpc = "test"
  /\ clock < MaxEvents * NS_PER_MS
  /\ LET u == Callback(US, e) IN
       /\ agg_tbl' = u.agg_tbl /\ out' = u.out
       /\ g_csv_header' = u.g_csv_header /\ seen' = u.seen
  /\ clock' = e.ts_ns
  /\ fired' = [NoFiring EXCEPT !.op = "deliver", !.pid = e.pid, !.now = e.ts_ns,
                               !.rec = e]
  /\ UNCHANGED <<cfg_map, wake_ts, oncpu_ts, agg_by_pid, rb, cur, life, dropped, hist,
                 pc, loc, Globals, MainVars>>

NextEvents ==
  \/ MainBanner
  \/ \E e \in Records(clock + NS_PER_MS) : Deliver(e)

SpecEvents == InitEvents /\ [][NextEvents]_vars

(* ---------------- handlers on several CPUs at once ---------------- *)

\* the order of 64-bit values written as above
LeU64(a, b) == IF (a >= 0) = (b >= 0) THEN a <= b ELSE a >= 0

\* the task ids a handler still running on another cpu is working on
InFlightSwitch(c) ==
  UNION {{loc[d].prev, loc[d].next} : d \in {x \in CPUS \ {c} : loc[x].op = "switch"}}

InFlightWake(c) == {loc[d].next : d \in {x \in CPUS \ {c} : loc[x].op = "wake"}}

\* the field of struct agg a stage adds its time to, and the one it counts in
TimeField(stage) == IF stage = "prev" THEN "total_run_ns" ELSE "total_wait_ns"
CountField(stage) == IF stage = "wake" THEN "wakes" ELSE "switches"

Goto(c, label) == pc' = [pc EXCEPT ![c] = label]

\* after the aggregate of a stage: the next aggregate, or the record
AfterStage(c) ==
  IF loc[c].stage = "prev"
    THEN /\ Goto(c, "at_lookup")
         /\ loc' = [loc EXCEPT ![c].stage = "next", ![c].key = loc[c].next]
    ELSE /\ Goto(c, "emit")
         /\ UNCHANGED loc

Frame == UNCHANGED <<cfg_map, agg_tbl, fired, seen, hist, life,
                    Globals, g_csv_header, out, MainVars>>

\* on_wakeup_btf up to the filter
CWakeStart(c, p) ==
  /\ pc[c] = "idle"
  /\ life[p] # "dead"
  /\ p \notin InFlightWake(c)
  /\ \E now \in Samples :
       /\ clock' = now
       /\ IF pass_filter(p)
            THEN /\ Goto(c, "wk_update")
                 /\ loc' = [loc EXCEPT ![c] = [NoLocals EXCEPT !.op = "wake", !.now = now,
                                                               !.next = p, !.stage = "wake",
                                                               !.key = p]]
            ELSE UNCHANGED <<pc, loc>>
  /\ UNCHANGED <<wake_ts, oncpu_ts, agg_by_pid, rb, cur, dropped>>
  /\ Frame

\* bpf_map_update_elem(&wake_ts, &pid, &now, BPF_ANY)
CWakeUpdate(c) ==
  /\ pc[c] = "wk_update"
  /\ wake_ts' = bpf_map_update_elem(wake_ts, loc[c].next, loc[c].now, BPF_ANY)
  /\ Goto(c, "at_lookup")
  /\ UNCHANGED <<oncpu_ts, agg_by_pid, rb, clock, cur, dropped, loc>>
  /\ Frame

\* on_switch_btf up to the filter
CSwitchStart(c, next) ==
  LET prev == cur[c] IN
  /\ pc[c] = "idle"
  /\ next # prev
  /\ next # 0 => (life[next] # "dead" /\ next \notin Running /\ next \notin InFlightSwitch(c))
  /\ cur' = [cur EXCEPT ![c] = next]
  /\ \E now \in Samples :
       /\ clock' = now
       /\ IF pass_filter(next) \/ pass_filter(prev)
            THEN /\ Goto(c, "sw_on_lookup")
                 /\ loc' = [loc EXCEPT ![c] = [NoLocals EXCEPT !.op = "switch", !.now = now,
                                                               !.prev = prev, !.next = next]]
            ELSE UNCHANGED <<pc, loc>>
  /\ UNCHANGED <<wake_ts, oncpu_ts, agg_by_pid, rb, dropped>>
  /\ Frame

\* if (prev_pid) { on_ptr = lookup(&oncpu_ts, &prev_pid); if (on_ptr) run_ns = now - *on_ptr; }
CSwitchOnLookup(c) ==
  /\ pc[c] = "sw_on_lookup"
  /\ loc' = [loc EXCEPT ![c].run_ns = SwitchRunNs(KS, loc[c].now, loc[c].prev),
                        ![c].stage = "prev", ![c].key = loc[c].prev]
  /\ Goto(c, IF loc[c].next # 0 THEN "sw_wake_lookup" ELSE "at_lookup")
  /\ UNCHANGED <<wake_ts, oncpu_ts, agg_by_pid, rb, clock, cur, dropped>>
  /\ Frame

\* w_ptr = lookup(&wake_ts, &next_pid); if (w_ptr) wait_ns = now - *w_ptr;
CSwitchWakeLookup(c) ==
  /\ pc[c] = "sw_wake_lookup"
  /\ loc' = [loc EXCEPT ![c].wait_ns = SwitchWaitNs(KS, loc[c].now, loc[c].next)]
  /\ Goto(c, IF loc[c].next \in DOMAIN wake_ts THEN "sw_wake_delete" ELSE "sw_on_update")
  /\ UNCHANGED <<wake_ts, oncpu_ts, agg_by_pid, rb, clock, cur, dropped>>
  /\ Frame

\* bpf_map_delete_elem(&wake_ts, &next_pid)
CSwitchWakeDelete(c) ==
  /\ pc[c] = "sw_wake_delete"
  /\ wake_ts' = bpf_map_delete_elem(wake_ts, loc[c].next)
  /\ Goto(c, "sw_on_update")
  /\ UNCHANGED <<oncpu_ts, agg_by_pid, rb, clock, cur, dropped, loc>>
  /\ Frame

\* bpf_map_update_elem(&oncpu_ts, &next_pid, &now, BPF_ANY)
CSwitchOnUpdate(c) ==
  /\ pc[c] = "sw_on_update"
  /\ oncpu_ts' = bpf_map_update_elem(oncpu_ts, loc[c].next, loc[c].now, BPF_ANY)
  /\ Goto(c, "at_lookup")
  /\ UNCHANGED <<wake_ts, agg_by_pid, rb, clock, cur, dropped, loc>>
  /\ Frame

\* agg_touch: a = lookup(&agg_by_pid, &pid)
CAggLookup(c) ==
  /\ pc[c] = "at_lookup"
  /\ Goto(c, IF loc[c].key \notin DOMAIN agg_by_pid THEN "at_insert"
             ELSE IF loc[c].stage = "wake" THEN "ld_count" ELSE "ld_time")
  /\ UNCHANGED <<wake_ts, oncpu_ts, agg_by_pid, rb, clock, cur, dropped, loc>>
  /\ Frame

\* agg_touch whose insert overwrites: BPF_ANY in place of BPF_NOEXIST
Mut_CAggInsert_any(c) ==
  /\ pc[c] = "at_insert"
  /\ agg_by_pid' = bpf_map_update_elem(agg_by_pid, loc[c].key, ZeroAgg, BPF_ANY)
  /\ Goto(c, "at_relookup")
  /\ UNCHANGED <<wake_ts, oncpu_ts, rb, clock, cur, dropped, loc>>
  /\ Frame

\* agg_touch: bpf_map_update_elem(&agg_by_pid, &pid, &zero, BPF_NOEXIST)
CAggInsert(c) ==
  /\ pc[c] = "at_insert"
  /\ agg_by_pid' = bpf_map_update_elem(agg_by_pid, loc[c].key, ZeroAgg, BPF_NOEXIST)
  /\ Goto(c, "at_relookup")
  /\ UNCHANGED <<wake_ts, oncpu_ts, rb, clock, cur, dropped, loc>>
  /\ Frame

\* agg_touch: a = lookup(&agg_by_pid, &pid) again; if (a) ...
CAggRelookup(c) ==
  /\ pc[c] = "at_relookup"
  /\ IF loc[c].key \in DOMAIN agg_by_pid
       THEN /\ Goto(c, IF loc[c].stage = "wake" THEN "ld_count" ELSE "ld_time")
            /\ UNCHANGED loc
       ELSE AfterStage(c)
  /\ UNCHANGED <<wake_ts, oncpu_ts, agg_by_pid, rb, clock, cur, dropped>>
  /\ Frame

\* a->total_run_ns += run_ns, a->total_wait_ns += wait_ns: the load
CLoadTime(c) ==
  /\ pc[c] = "ld_time"
  /\ loc' = [loc EXCEPT ![c].tmp = agg_by_pid[loc[c].key][TimeField(loc[c].stage)]]
  /\ Goto(c, "st_time")
  /\ UNCHANGED <<wake_ts, oncpu_ts, agg_by_pid, rb, clock, cur, dropped>>
  /\ Frame

\* ... and the store
CStoreTime(c) ==
  /\ pc[c] = "st_time"
  /\ agg_by_pid' =
       [agg_by_pid EXCEPT ![loc[c].key][TimeField(loc[c].stage)] =
          loc[c].tmp + (IF loc[c].stage = "prev" THEN loc[c].run_ns ELSE loc[c].wait_ns)]
  /\ Goto(c, "ld_count")
  /\ UNCHANGED <<wake_ts, oncpu_ts, rb, clock, cur, dropped, loc>>
  /\ Frame

\* a->switches++, a->wakes++: the load
CLoadCount(c) ==
  /\ pc[c] = "ld_count"
  /\ loc' = [loc EXCEPT ![c].tmp = agg_by_pid[loc[c].key][CountField(loc[c].stage)]]
  /\ Goto(c, "st_count")
  /\ UNCHANGED <<wake_ts, oncpu_ts, agg_by_pid, rb, clock, cur, dropped>>
  /\ Frame

\* ... and the store
CStoreCount(c) ==
  /\ pc[c] = "st_count"
  /\ agg_by_pid' =
       [agg_by_pid EXCEPT ![loc[c].key][CountField(loc[c].stage)] = loc[c].tmp + 1]
  /\ AfterStage(c)
  /\ UNCHANGED <<wake_ts, oncpu_ts, rb, clock, cur, dropped>>
  /\ Frame

\* bpf_ringbuf_reserve, the fields, bpf_ringbuf_submit; the handler returns
CEmit(c) ==
  /\ pc[c] = "emit"
  /\ rb' = Emit(rb, IF loc[c].op = "wake"
                      THEN WakeEvent(loc[c].now, loc[c].next)
                      ELSE SwitchEvent(loc[c].now, loc[c].prev, loc[c].next,
                                       loc[c].run_ns, loc[c].wait_ns))
  /\ dropped' = (dropped \/ ~bpf_ringbuf_reserve(rb))
  /\ Goto(c, "idle")
  /\ loc' = [loc EXCEPT ![c] = NoLocals]
  /\ UNCHANGED <<wake_ts, oncpu_ts, agg_by_pid, clock, cur>>
  /\ Frame

NextConc ==
  \/ \E c \in CPUS, p \in PIDS : CWakeStart(c, p)
  \/ \E c \in CPUS : CWakeUpdate(c)
  \/ \E c \in CPUS, next \in PIDS \cup {0} : CSwitchStart(c, next)
  \/ \E c \in CPUS : CSwitchOnLookup(c)
  \/ \E c \in CPUS : CSwitchWakeLookup(c)
  \/ \E c \in CPUS : CSwitchWakeDelete(c)
  \/ \E c \in CPUS : CSwitchOnUpdate(c)
  \/ \E c \in CPUS : CAggLookup(c)
  \/ \E c \in CPUS : CAggInsert(c)
  \/ \E c \in CPUS : CAggRelookup(c)
  \/ \E c \in CPUS : CLoadTime(c)
  \/ \E c \in CPUS : CStoreTime(c)
  \/ \E c \in CPUS : CLoadCount(c)
  \/ \E c \in CPUS : CStoreCount(c)
  \/ \E c \in CPUS : CEmit(c)

SpecConc == Init /\ [][NextConc]_vars

(* ======================= claims ======================= *)

Last(s) == s[Len(s)]

Probes == {"wake", "switch", "exec", "exit", "fork"}

\* the firing f applied to the tables and ring st
Replay(st, f) ==
  CASE f.op = "wake"   -> on_wakeup_btf(st, f.now, f.pid)
    [] f.op = "switch" -> on_switch_btf(st, f.now, f.prev, f.next)
    [] f.op = "exec"   -> on_exec_btf(st, f.now, f.pid, cur[f.cpu])
    [] f.op = "exit"   -> on_exit_btf(st, f.now, f.pid, f.prev)
    [] f.op = "fork"   -> on_fork_btf(st, f.now, f.prev, f.next)

\* C1: a processed switch with next_pid # 0 reports wait_ns = now - wake_stamp[next]
\* when next had a wake stamp and 0 when it had none, leaves no wake stamp for next,
\* and leaves oncpu_ts[next] = now.
C1_SwitchWaitAndStamps ==
  [][ (fired'.op = "switch" /\ fired'.passed /\ fired'.next # 0) =>
        LET n    == fired'.next
            now  == fired'.now
            want == IF n \in DOMAIN wake_ts THEN now - wake_ts[n] ELSE 0
        IN /\ n \notin DOMAIN wake_ts'
           /\ n \in DOMAIN oncpu_ts'
           /\ oncpu_ts'[n] = now
           /\ (Len(rb) < MaxRing) =>
                /\ Len(rb') = Len(rb) + 1
                /\ Last(rb').type = EV_SWITCH
                /\ Last(rb').sw.next_pid = n
                /\ Last(rb').sw.wait_ns = want
    ]_vars

\* C1 witness: a switch-in that consumed a wake stamp and reported a positive wait.
C1_Witness ==
  /\ fired.op = "switch" /\ fired.ok /\ fired.next # 0
  /\ Last(rb).type = EV_SWITCH /\ Last(rb).sw.wait_ns > 0
  /\ fired.next \notin DOMAIN wake_ts
  /\ fired.next \in DOMAIN oncpu_ts /\ oncpu_ts[fired.next] = clock

\* C2 as stated: the wait_ns reported at a switch-in of T is (switch time - time of the
\* last wake of T) exactly when that wake came after T's last switch-out, and 0 in
\* every other case, also when the wake came while T was still on a CPU.
C2_Original ==
  [][ (fired'.op = "switch" /\ fired'.ok /\ fired'.next # 0) =>
        LET T == fired'.next
            w == hist[T].wake
            afterOut == w # None /\ w > hist[T].out
        IN Last(rb').sw.wait_ns = IF afterOut THEN fired'.now - w ELSE 0
    ]_vars

\* C2 amended: the wait_ns reported at a switch-in of T is (switch time - time of the
\* last processed wake of T) exactly when that wake came after T's previous processed
\* switch-in and after T's last processed exit, whether or not T has been switched
\* out since; otherwise it is 0.
C2_WaitFromPendingWake ==
  [][ (fired'.op = "switch" /\ fired'.ok /\ fired'.next # 0) =>
        LET T == fired'.next
            w == hist[T].wake
            pending == w # None /\ w > hist[T].in /\ w > hist[T].exit
        IN Last(rb').sw.wait_ns = IF pending THEN fired'.now - w ELSE 0
    ]_vars

\* C2 witness: a switch-in reporting the time since a wake that preceded the task's
\* last switch-out.
C2_Witness ==
  /\ fired.op = "switch" /\ fired.ok /\ fired.next # 0
  /\ hist[fired.next].wake # None
  /\ hist[fired.next].wake < hist[fired.next].out
  /\ Last(rb).sw.wait_ns = fired.now - hist[fired.next].wake

\* C3: a processed switch with a non-zero threshold and wait_ns >= threshold puts a
\* WAITLONG record {pid = next_pid, ts = now} into the ring right before its SWITCH
\* record.
C3_WaitLongBeforeSwitch ==
  (/\ fired.op = "switch" /\ fired.ok
   /\ cfg_map.wait_alert_ns # 0
   /\ Last(rb).sw.wait_ns >= cfg_map.wait_alert_ns)
  => /\ Len(rb) >= 2
     /\ rb[Len(rb) - 1].type = EV_WAITLONG
     /\ rb[Len(rb) - 1].pid = fired.next
     /\ rb[Len(rb) - 1].ts_ns = fired.now

FilterOk(e, P) ==
  e.pid = P \/ (e.type = EV_SWITCH /\ (e.sw.prev_pid = P \/ e.sw.next_pid = P))

\* C4: with filter pid P # 0 every record in the ring has primary pid P or is a SWITCH
\* with prev_pid or next_pid P; a wake, exec, exit or fork firing for another pid emits
\* nothing; a switch firing emits (the ring having room) exactly when prev or next is P.
C4_FilterPid ==
  [][ (cfg_map.sample_filter_pid # 0) =>
        LET P == cfg_map.sample_filter_pid IN
        /\ \A i \in 1..Len(rb') : FilterOk(rb'[i], P)
        /\ (fired'.op = "switch" /\ Len(rb) < MaxRing) =>
             ((Len(rb') = Len(rb) + 1) <=> (fired'.prev = P \/ fired'.next = P))
        /\ (fired'.op = "switch" /\ Len(rb') = Len(rb) + 1) =>
             (Last(rb').type = EV_SWITCH /\ Last(rb').sw.prev_pid = fired'.prev
                                         /\ Last(rb').sw.next_pid = fired'.next)
        /\ (fired'.op \in (Probes \ {"switch"}) /\ fired'.pid # P) => rb' = rb
    ]_vars

\* C4 witness: under filter pid 1 a SWITCH record whose primary pid is another task
\* is in the ring because its prev_pid is 1.
C4_Witness ==
  /\ cfg_map.sample_filter_pid = 1
  /\ fired.op = "switch" /\ fired.ok
  /\ Last(rb).type = EV_SWITCH /\ Last(rb).pid = 65537 /\ Last(rb).sw.prev_pid = 1

\* C5: a firing whose ring reservation fails emits nothing and leaves the tables as
\* the same firing leaves them when the reservation succeeds.
C5_DropKeepsTables ==
  [][ (fired'.op \in Probes /\ fired'.passed /\ Len(rb) = MaxRing) =>
        LET r == Replay([KS EXCEPT !.rb = << >>], fired') IN
        /\ rb' = rb
        /\ Len(r.rb) = 1
        /\ wake_ts' = r.wake_ts
        /\ oncpu_ts' = r.oncpu_ts
        /\ agg_by_pid' = r.agg_by_pid
        /\ (fired'.op = "wake") => (fired'.pid \in DOMAIN wake_ts'
                                      /\ wake_ts'[fired'.pid] = fired'.now)
        /\ (fired'.op = "switch" /\ fired'.next # 0) =>
             (fired'.next \notin DOMAIN wake_ts' /\ fired'.next \in DOMAIN oncpu_ts'
                /\ oncpu_ts'[fired'.next] = fired'.now)
        /\ (fired'.op = "exit") => (fired'.pid \notin DOMAIN wake_ts'
                                      /\ fired'.pid \notin DOMAIN oncpu_ts')
    ]_vars

\* C5 witness: a switch-in whose record was dropped on a full ring, its on-CPU stamp
\* written all the same.
C5_Witness ==
  /\ fired.op = "switch" /\ fired.passed /\ ~fired.ok /\ fired.next # 0
  /\ Len(rb) = MaxRing /\ dropped
  /\ fired.next \in DOMAIN oncpu_ts /\ oncpu_ts[fired.next] = fired.now

\* C6 as stated: a task id has an on-CPU stamp if and only if the task is running on
\* exactly one CPU.
C6_Original ==
  \A p \in PIDS :
    (p \in DOMAIN oncpu_ts) <=> (Cardinality({c \in CPUS : cur[c] = p}) = 1)

\* C6 amended: a task id has an on-CPU stamp if and only if a processed switch has
\* switched it in since attach and since its last processed process exit; the stamp is
\* the time of the latest such switch-in, it stays in the table after the task is
\* switched out, and it is absent after the task's process exit.
C6_StampSinceSwitchIn ==
  /\ 0 \notin DOMAIN oncpu_ts
  /\ \A p \in PIDS :
       /\ (p \in DOMAIN oncpu_ts) <=> (hist[p].in # None /\ hist[p].in > hist[p].exit)
       /\ (p \in DOMAIN oncpu_ts) => oncpu_ts[p] = hist[p].in
       /\ (fired.op = "exit" /\ fired.passed /\ fired.pid = p) => p \notin DOMAIN oncpu_ts

\* C6 witness: a task that has been switched out and is on no CPU still has its stamp.
C6_Witness ==
  \E p \in PIDS :
    /\ p \in DOMAIN oncpu_ts
    /\ \A c \in CPUS : cur[c] # p
    /\ hist[p].out > hist[p].in

ExitEmitted(pid, now, old, new) ==
  /\ Len(new) = Len(old) + 1
  /\ SubSeq(new, 1, Len(old)) = old
  /\ Last(new).type = EV_EXIT /\ Last(new).pid = pid /\ Last(new).ts_ns = now

\* C7 as stated: after the exit handler fires for a thread-group leader, under every
\* configuration, neither stamp table holds its id, an EXIT record is emitted (ring
\* space permitting) and the aggregate table is unchanged.
C7_Original ==
  [][ (fired'.op = "exit" /\ fired'.pid = fired'.prev) =>
        LET pid == fired'.pid IN
        /\ pid \notin DOMAIN wake_ts'
        /\ pid \notin DOMAIN oncpu_ts'
        /\ (Len(rb) < MaxRing) => ExitEmitted(pid, fired'.now, rb, rb')
        /\ agg_by_pid' = agg_by_pid
    ]_vars

\* C7 amended: the same, whenever the filter pid is 0 or equals the exiting id; when a
\* filter pid different from the exiting id is set, the exit handler changes no table
\* and emits nothing.
C7_LeaderExit ==
  [][ (fired'.op = "exit" /\ fired'.pid = fired'.prev) =>
        LET pid == fired'.pid
            f   == cfg_map.sample_filter_pid
        IN IF f = 0 \/ f = pid
             THEN /\ pid \notin DOMAIN wake_ts'
                  /\ pid \notin DOMAIN oncpu_ts'
                  /\ (Len(rb) < MaxRing) => ExitEmitted(pid, fired'.now, rb, rb')
                  /\ (Len(rb) = MaxRing) => rb' = rb
                  /\ agg_by_pid' = agg_by_pid
             ELSE /\ wake_ts' = wake_ts /\ oncpu_ts' = oncpu_ts
                  /\ agg_by_pid' = agg_by_pid /\ rb' = rb
    ]_vars

\* C7 witness: a leader that had been switched in and has an aggregate exits: its EXIT
\* record is in the ring, its stamp is gone, its aggregate is still there.
C7_Witness ==
  /\ fired.op = "exit" /\ fired.ok /\ fired.pid = fired.prev
  /\ Last(rb).type = EV_EXIT /\ Last(rb).pid = fired.pid
  /\ hist[fired.pid].in # None
  /\ fired.pid \notin DOMAIN oncpu_ts /\ fired.pid \notin DOMAIN wake_ts
  /\ fired.pid \in DOMAIN agg_by_pid /\ agg_by_pid[fired.pid].switches > 0

KernelAgg(p) == IF p \in DOMAIN agg_by_pid THEN agg_by_pid[p] ELSE ZeroAgg

\* C8: once every record of a run without a failed reservation is consumed, the
\* user-side aggregate of every task id the probes have an aggregate for equals that
\* kernel-side aggregate.
C8_UserEqualsKernel ==
  (rb = << >> /\ ~dropped) =>
    \A p \in DOMAIN agg_by_pid :
      /\ agg_tbl[A(p)].total_run_ns = KernelAgg(p).total_run_ns
      /\ agg_tbl[A(p)].total_wait_ns = KernelAgg(p).total_wait_ns
      /\ agg_tbl[A(p)].switches = KernelAgg(p).switches
      /\ agg_tbl[A(p)].wakes = KernelAgg(p).wakes
      /\ agg_tbl[A(p)].first_exec_ns = KernelAgg(p).exec_ts_ns

\* C9: the user-side total_run_ns of every task id T named by a consumed record is the
\* sum of run_ns over the consumed SWITCH records with prev_pid = T, and its
\* total_wait_ns the sum of wait_ns over those with next_pid = T.
C9_UserSums ==
  \A T \in PIDS \cup {0} :
    seen[T].n > 0 =>
      /\ agg_tbl[A(T)].total_run_ns = seen[T].run
      /\ agg_tbl[A(T)].total_wait_ns = seen[T].wait

\* C10: no kernel-side aggregate counter of any task id decreases from one state to
\* the next, also while handlers on different CPUs update the same entry.
C10_CountersMonotone ==
  [][ \A p \in DOMAIN agg_by_pid :
        /\ p \in DOMAIN agg_by_pid'
        /\ \A F \in {"total_run_ns", "total_wait_ns", "switches", "wakes"} :
             LeU64(agg_by_pid[p][F], agg_by_pid'[p][F])
    ]_vars

\* C11: a wake stamp leaves the table only in a switch handler's delete for that task,
\* and the stamp that leaves is the one that handler read into its wait_ns, whatever a
\* wake handler on another CPU does in between.
C11_WakeStampConsumed ==
  [][ \A T \in DOMAIN wake_ts :
        T \notin DOMAIN wake_ts' =>
          \E c \in CPUS :
            /\ pc[c] = "sw_wake_delete"
            /\ loc[c].next = T
            /\ loc[c].wait_ns = loc[c].now - wake_ts[T]
    ]_vars

(* ---------------- startup, header, exit codes, shutdown (SpecMain) ---------------- *)

Setup == <<"load", "cfg", "attach", "ring">>
Teardown == <<"free", "destroy">>
Did(step) == \E i \in 1..Len(steps) : steps[i] = step
ProbeFired == fired.op \in {"wake", "switch", "fork"}
NoneProcessed == /\ out = << >>
                 /\ \A T \in DOMAIN seen : seen[T].n = 0

\* C12: the configuration record is fully written before any probe fires: the write comes
\* after the load and directly before the attach, and the attach is not attempted when the
\* write fails.
C12_ConfigBeforeAttach ==
  /\ (Attached \/ ProbeFired) =>
       /\ Did("cfg")
       /\ cfg_map = [wait_alert_ns |-> g_wait_alert_ns, sample_filter_pid |-> g_filter_pid]
  /\ \A i \in 1..Len(steps) :
       /\ steps[i] \in {"attach", "attach_failed"} =>
            i = 3 /\ steps[1] = "load" /\ steps[2] = "cfg"
       /\ steps[i] = "cfg_failed" =>
            \A j \in 1..Len(steps) : j > i => steps[j] = "destroy"

C12_Witness ==
  /\ Attached /\ fired.op = "wake"
  /\ g_filter_pid = 1 /\ g_wait_alert_ns = 2 * NS_PER_MS
  /\ cfg_map.sample_filter_pid = 1 /\ cfg_map.wait_alert_ns = 2 * NS_PER_MS

Given(flag) == \E i \in 1..Len(argv) : argv[i] = flag
HeaderLines == {i \in 1..Len(out) : out[i].fmt = "header"}
PastBanner == Did("ring") /\ mpc # "banner"

\* C13: with --csv and --csv-header the header line is written exactly once over the whole
\* run, by the call at startup, and ahead of every data row; when --csv-header is not given,
\* or given without --csv, no header line is ever written.
C13_HeaderOnce ==
  /\ Cardinality(HeaderLines) <= 1
  /\ HeaderLines # {} => HeaderLines = {1} /\ out[1] = Header(g_mode)
  /\ (Given("--csv") /\ Given("--csv-header") /\ PastBanner) => HeaderLines = {1}
  /\ ~(Given("--csv") /\ Given("--csv-header")) => HeaderLines = {}

C13_Witness ==
  /\ Given("--csv") /\ Given("--csv-header")
  /\ Len(out) >= 3 /\ HeaderLines = {1}
  /\ seen[1].n >= 2

C13_NoHeaderWitness ==
  /\ Given("--csv-header") /\ ~Given("--csv")
  /\ Len(out) >= 1

\* C14: the startup steps run in the order load, configuration write, attach, ring set-up;
\* the first one to fail ends the process with code 2, 3, 4 or 5, with no later step run and
\* no event processed; a command-line error exits 1 before any step; a run that leaves the
\* loop exits 0.
C14_StartupOrder ==
  /\ (mpc = "exited") = (exit_code # None)
  /\ exit_code \in {None, 0, 1, 2, 3, 4, 5}
  /\ exit_code = None => \E n \in 0..4 : \E t \in 0..1 :
                           steps = SubSeq(Setup, 1, n) \o SubSeq(Teardown, 1, t)
  /\ exit_code = 1 => steps = << >> /\ ~ParseArgs(argv, 1, DefaultGlobals, build).ok
  /\ mpc # "args" /\ ~ParseArgs(argv, 1, DefaultGlobals, build).ok => exit_code = 1
  /\ exit_code = 2 => steps = <<"load_failed">>
  /\ exit_code = 3 => steps = <<"load", "cfg_failed", "destroy">>
  /\ exit_code = 4 => steps = <<"load", "cfg", "attach_failed", "destroy">>
  /\ exit_code = 5 => steps = <<"load", "cfg", "attach", "ring_failed", "destroy">>
  /\ exit_code = 0 => steps = Setup \o Teardown
  /\ exit_code \in 1..5 => NoneProcessed
  /\ ~Did("ring") => NoneProcessed

C14_Witness ==
  /\ exit_code = 5 /\ rb # << >> /\ ProbeFired

C14_CleanWitness ==
  /\ exit_code = 0 /\ g_stop = 1 /\ seen[1].n > 0

\* C15 as the claim states it: once a signal has set the stop flag the consumer terminates
\* with exit code 0 after the teardown ring free, skeleton destroy, starting at most one
\* further poll, and the flag is never cleared.
C15_Original ==
  /\ (g_stop = 1) ~> (mpc = "exited" /\ exit_code = 0 /\ steps = Setup \o Teardown)
  /\ [](late_polls <= 1)
  /\ [][g_stop' >= g_stop]_vars

\* C15: once a signal has set the stop flag the consumer terminates, starting at most one
\* further poll; when setup has succeeded it tears down ring free then skeleton destroy and
\* exits 0, and when a setup step fails after the signal it exits with that step's code;
\* the flag is never cleared.
C15_StopTerminates ==
  /\ (g_stop = 1) ~> (mpc = "exited")
  /\ [](mpc = "exited" /\ g_stop = 1 =>
          IF Did("ring") THEN exit_code = 0 /\ steps = Setup \o Teardown
          ELSE exit_code \in 2..5)
  /\ [](late_polls <= 1)
  /\ [][g_stop' >= g_stop]_vars

C15_Witness ==
  /\ g_stop = 1 /\ late_polls = 1
  /\ mpc = "exited" /\ exit_code = 0

\* C16: a poll result of -EAGAIN or of zero or more keeps the loop going (back to the loop
\* test, and into the next poll while the stop flag is clear); -EINTR ends the loop; any
\* other negative result ends the loop; and whichever way the loop ends, the ring is freed
\* and then the skeleton destroyed before the process exits.
C16_PollResults ==
  [][ /\ (mpc = "polling" /\ mpc' # "polling") =>
           /\ fired'.op = "poll"
           /\ (fired'.err >= 0 \/ fired'.err = 0 - EAGAIN) => mpc' = "test"
           /\ fired'.err = 0 - EINTR => mpc' = "free"
           /\ (fired'.err < 0 /\ fired'.err # 0 - EAGAIN) => mpc' = "free"
      /\ (mpc = "test" /\ g_stop = 0 /\ mpc' # mpc) => mpc' = "poll"
      /\ (mpc' = "exited" /\ Did("ring")) =>
           /\ exit_code' = 0
           /\ SubSeq(steps', Len(steps') - 1, Len(steps')) = Teardown
    ]_vars

C16_Witness ==
  /\ fired.op = "poll" /\ fired.err = 0 - EAGAIN
  /\ mpc = "polling" /\ g_stop = 0

C16_ErrorWitness ==
  /\ fired.op = "poll" /\ fired.err = 0 - (EAGAIN + 1)
  /\ mpc = "exited" /\ g_stop = 0 /\ exit_code = 0

(* ---------------- one row per record (SpecEvents) ---------------- *)

\* the data rows a step appends to the output, header lines left aside
NewRows == SelectSeq(SubSeq(out', Len(out) + 1, Len(out')), LAMBDA l : l.fmt # "header")

Delivered == fired'.op = "deliver"

\* the kinds a mode writes a row for, as the mode table gives them
Trigger(mode) ==
  CASE mode \in {MODE_LATENCY, MODE_FAIRNESS, MODE_CTX} -> {EV_SWITCH}
    [] mode = MODE_TIMELINE   -> {EV_WAKE, EV_SWITCH, EV_EXEC, EV_EXIT}
    [] mode = MODE_SHORTLONG  -> {EV_EXIT}
    [] mode = MODE_STARVATION -> {EV_WAITLONG}
    [] OTHER                  -> {}

SixModes == {MODE_LATENCY, MODE_FAIRNESS, MODE_CTX, MODE_TIMELINE, MODE_SHORTLONG,
             MODE_STARVATION}

\* C17: in the modes latency, fairness, ctx, timeline, shortlong and starvation, in the
\* human-readable and in the CSV rendering, a consumed record yields exactly one output
\* row when its kind is a triggering kind of the mode and no row otherwise.
C17_OneRowPerTrigger ==
  [][ (Delivered /\ g_mode \in SixModes) =>
        Len(NewRows) = (IF fired'.rec.type \in Trigger(g_mode) THEN 1 ELSE 0)
    ]_vars

C17_Witness ==
  /\ fired.op = "deliver" /\ fired.rec.type = EV_WAITLONG
  /\ g_mode = MODE_STARVATION /\ g_csv = 1
  /\ Len(out) = 3 /\ out[1].fmt = "header"

C17_TextWitness ==
  /\ fired.op = "deliver" /\ fired.rec.type = EV_EXIT
  /\ g_mode = MODE_TIMELINE /\ g_csv = 0
  /\ Len(out) = 2

\* C18: in stream mode every consumed record, of whatever kind (wait alerts and forks
\* included), yields exactly one output row, in both renderings.
C18_StreamEveryRecord ==
  [][ (Delivered /\ g_mode = MODE_STREAM) => Len(NewRows) = 1 ]_vars

\* C19: with --mode fork every consumed FORK record yields exactly one row made of its
\* ts, sw.prev_pid and sw.next_pid, in the CSV and in the human-readable rendering, and a
\* record of any other kind yields no row.
C19_ForkRows ==
  [][ (Delivered /\ \E i \in 1..(Len(argv) - 1) : argv[i] = "--mode" /\ argv[i + 1] = "fork") =>
        IF fired'.rec.type = EV_FORK
          THEN /\ Len(NewRows) = 1
               /\ NewRows[1].cols = <<fired'.rec.ts_ns, fired'.rec.sw.prev_pid,
                                      fired'.rec.sw.next_pid>>
          ELSE Len(NewRows) = 0
    ]_vars

\* C19, fork build only: the mode exists there, and still the text rendering has no row
C19_ForkBuildOnly ==
  [][ (Delivered /\ build = "fork" /\ g_mode = MODE_FORK /\ fired'.rec.type = EV_FORK) =>
        Len(NewRows) = 1 ]_vars

C19_CsvForkRow ==
  /\ build = "fork" /\ g_mode = MODE_FORK /\ g_csv = 1
  /\ fired.op = "deliver" /\ fired.rec.type = EV_FORK
  /\ out[Len(out)] = Line("csv fork", <<fired.now, 1, 2>>)

(* ---------------- the fork probe (Spec) ---------------- *)

\* C20: a firing of the fork handler whose parent passes the filter emits exactly one FORK
\* record with pid = parent, prev_pid = parent, next_pid = child (none when the ring has no
\* room, as for every probe) and leaves the wake, on-CPU and aggregate tables as they were;
\* a parent that does not match a non-zero filter emits nothing.
C20_ForkEmitsOne ==
  [][ fired'.op = "fork" =>
        LET P == cfg_map.sample_filter_pid
            parent == fired'.prev
            child == fired'.next
        IN
        /\ wake_ts' = wake_ts /\ oncpu_ts' = oncpu_ts /\ agg_by_pid' = agg_by_pid
        /\ IF (P = 0 \/ parent = P) /\ bpf_ringbuf_reserve(rb)
             THEN /\ Len(rb') = Len(rb) + 1
                  /\ SubSeq(rb', 1, Len(rb)) = rb
                  /\ Last(rb').type = EV_FORK
                  /\ Last(rb').ts_ns = fired'.now
                  /\ Last(rb').pid = parent
                  /\ Last(rb').sw.prev_pid = parent
                  /\ Last(rb').sw.next_pid = child
             ELSE rb' = rb
    ]_vars

C20_Witness ==
  /\ cfg_map.sample_filter_pid = 1
  /\ fired.op = "fork" /\ fired.ok /\ fired.prev = 1 /\ fired.next = 2
  /\ Last(rb).type = EV_FORK /\ Last(rb).pid = 1 /\ Last(rb).sw.next_pid = 2
  /\ wake_ts # Empty

C20_FilteredWitness ==
  /\ cfg_map.sample_filter_pid = 1
  /\ fired.op = "fork" /\ fired.prev = 65537 /\ ~fired.passed

(* ---------------- the lifetime row and the user-side table (SpecEvents) ---------------- *)

\* C21: in shortlong mode the row written for a consumed EXIT record of task P carries
\* P, the lifetime (the EXIT's timestamp minus the timestamp of the first EXEC consumed
\* for P), the number of WAKE records consumed for P and the number of SWITCH records
\* consumed that name P as prev or next.
C21_ShortlongRow ==
  [][ (Delivered /\ g_mode = MODE_SHORTLONG /\ fired'.rec.type = EV_EXIT) =>
        LET P == fired'.rec.pid
            sn == seen'[P]
        IN /\ Len(NewRows) = 1
           /\ NewRows[1].cols[1] = P
           /\ sn.exec # None => NewRows[1].cols[2] = Ms(fired'.rec.ts_ns - sn.exec)
           /\ NewRows[1].cols[3] = sn.wakes
           /\ NewRows[1].cols[4] = sn.switches
    ]_vars

\* C21 without the counts: the lifetime alone, when an EXEC was consumed
C21_LifetimeOnly ==
  [][ (Delivered /\ g_mode = MODE_SHORTLONG /\ fired'.rec.type = EV_EXIT
         /\ seen'[fired'.rec.pid].exec # None) =>
        /\ Len(NewRows) = 1
        /\ NewRows[1].cols[2] = Ms(fired'.rec.ts_ns - seen'[fired'.rec.pid].exec)
    ]_vars

\* the task ids a record names
Named(e) == IF e.type \in {EV_SWITCH, EV_FORK} THEN {e.pid, e.sw.prev_pid, e.sw.next_pid}
            ELSE {e.pid}

\* C22: the user-side table is keyed by task id: consuming a record leaves the entry
\* of every task id the record does not name as it was, and a task id no consumed
\* record has named yet has an all-zero entry.
C22_KeyedByTaskId ==
  [][ Delivered =>
        \A Q \in PIDS :
          /\ Q \notin Named(fired'.rec) => agg_tbl'[A(Q)] = agg_tbl[A(Q)]
          /\ seen[Q].n = 0 => agg_tbl[A(Q)] = ZeroUser
    ]_vars

(* ---------------- the emitted stream around a process exit (Spec) ---------------- *)

\* the EXIT record of T's exit is in the ring and T's id has not been released yet
ExitInRing(T) ==
  /\ life[T] = "exiting"
  /\ \E i \in 1..Len(rb) :
       rb[i].type = EV_EXIT /\ rb[i].pid = T /\ rb[i].ts_ns = hist[T].exit

\* C23: once an EXIT record for task id T has been emitted, no WAKE record with pid T
\* and no SWITCH record with prev_pid or next_pid T is emitted until the id is reused;
\* the final switch-out of the exiting task does not follow its EXIT record.
C23_NothingAfterExit ==
  [][ (Len(rb') = Len(rb) + 1 /\ Last(rb').type \in {EV_WAKE, EV_SWITCH}) =>
        \A T \in PIDS : T \in Named(Last(rb')) => ~ExitInRing(T)
    ]_vars

\* C23, its last part alone: no SWITCH record with prev_pid T follows T's EXIT record
C23_FinalSwitchOut ==
  [][ (fired'.op = "switch" /\ fired'.ok /\ fired'.prev # 0) => ~ExitInRing(fired'.prev) ]_vars

\* C24: a firing of the exit handler for a non-leader thread (task id differs from
\* thread-group id) emits no record and leaves the wake-stamp, on-CPU-stamp and
\* aggregate tables exactly as they were.
C24_ThreadExitNoEffect ==
  [][ (fired'.op = "exit" /\ fired'.pid # fired'.prev) =>
        /\ rb' = rb
        /\ wake_ts' = wake_ts /\ oncpu_ts' = oncpu_ts /\ agg_by_pid' = agg_by_pid
    ]_vars

\* C24 witness: thread 2 of process 1 exits with no filter set, while the process has
\* an on-CPU stamp and the thread has one of its own
C24_Witness ==
  /\ fired.op = "exit" /\ fired.prev = 2 /\ fired.pid = 1
  /\ cfg_map.sample_filter_pid = 0
  /\ 1 \in DOMAIN oncpu_ts /\ 2 \in DOMAIN oncpu_ts
  /\ bpf_ringbuf_reserve(rb)

(* ---------------- switches from the idle task, wait alerts (Spec) ---------------- *)

\* C25: a processed switch with prev_pid = 0 (the idle task) emits run_ns = 0 and neither
\* creates nor updates an aggregate for task id 0: its switches counter and its
\* total_run_ns are what they were.
C25_IdlePrev ==
  [][ (fired'.op = "switch" /\ fired'.passed /\ fired'.prev = 0) =>
        /\ fired'.run_ns = 0
        /\ fired'.ok => Last(rb').sw.run_ns = 0
        /\ (0 \in DOMAIN agg_by_pid') = (0 \in DOMAIN agg_by_pid)
        /\ 0 \in DOMAIN agg_by_pid =>
             /\ agg_by_pid'[0].switches = agg_by_pid[0].switches
             /\ agg_by_pid'[0].total_run_ns = agg_by_pid[0].total_run_ns
    ]_vars

\* C25, the emitted value alone: run_ns is 0 in the record of a switch from idle
C25_IdleRunZero ==
  [][ (fired'.op = "switch" /\ fired'.ok /\ fired'.prev = 0) =>
        Last(rb').sw.run_ns = 0 ]_vars

\* the records a probe firing has added to the ring
Added == SubSeq(rb', Len(rb) + 1, Len(rb'))

\* C26: a WAITLONG record is emitted only by a switch whose wait_ns has reached the
\* configured non-zero threshold: with threshold 0 none is ever emitted, and with a
\* threshold t > 0 every WAITLONG record emitted, and every starvation row written,
\* belongs to a switch-in with wait_ns >= t.
C26_AlertOnlyAboveThreshold ==
  [][ /\ fired'.op \in Probes =>
           \A i \in 1..Len(Added) :
             Added[i].type = EV_WAITLONG =>
               /\ fired'.op = "switch"
               /\ cfg_map.wait_alert_ns # 0
               /\ fired'.wait_ns >= cfg_map.wait_alert_ns
               /\ Added[i].pid = fired'.next
      /\ cfg_map.wait_alert_ns = 0 =>
           /\ \A i \in 1..Len(rb') : rb'[i].type # EV_WAITLONG
           /\ out' = << >>
    ]_vars

\* C26 witness: with threshold 0 a switch-in that waited 2 ms is processed and its
\* SWITCH record is the only record the firing emits
C26_Witness ==
  /\ cfg_map.wait_alert_ns = 0
  /\ fired.op = "switch" /\ fired.ok /\ fired.wait_ns >= 2 * NS_PER_MS
  /\ Last(rb).type = EV_SWITCH /\ Last(rb).sw.wait_ns = fired.wait_ns
  /\ \A i \in 1..Len(rb) : rb[i].type # EV_WAITLONG

\* with threshold 2 ms a switch-in that waited 2 ms emits its SWITCH record alone
C26_AboveThresholdNoAlert ==
  /\ cfg_map.wait_alert_ns = 2 * NS_PER_MS
  /\ fired.op = "switch" /\ fired.ok /\ fired.wait_ns >= 2 * NS_PER_MS
  /\ Len(rb) = 1 /\ rb[1].type = EV_SWITCH

(* ---------------- the command line (SpecMain) ---------------- *)

\* the command-line grammar: the mode names, the two value-taking options, the two flags
ModeNames == {"stream", "latency", "fairness", "ctx", "timeline", "shortlong",
              "starvation", "fork"}

RECURSIVE WellFormed(_, _)
WellFormed(av, i) ==
  IF i > Len(av) THEN TRUE
  ELSE IF av[i] = "--mode"
    THEN i + 1 <= Len(av) /\ av[i + 1] \in ModeNames /\ WellFormed(av, i + 2)
  ELSE IF av[i] \in {"--filter-pid", "--wait-alert-ms"}
    THEN i + 1 <= Len(av) /\ WellFormed(av, i + 2)
  ELSE IF av[i] \in {"--csv", "--csv-header"} THEN WellFormed(av, i + 1)
  ELSE FALSE

\* C27: every malformed command line (an unrecognised flag, a value-taking flag that is
\* the last argument, a --mode value that is none of the eight names) ends in usage and
\* exit code 1 with no probe loaded; a well-formed one proceeds, in stream mode when
\* --mode is absent.
C27_MalformedExits ==
  mpc # "args" =>
    IF WellFormed(argv, 1)
      THEN /\ exit_code # 1
           /\ ~Given("--mode") => g_mode = MODE_STREAM
      ELSE exit_code = 1 /\ steps = << >>

\* C27 for the flags alone: an unrecognised flag or a missing value exits 1
C27_FlagErrors ==
  (mpc # "args" /\ argv \in {<<"--bogus">>, <<"--mode">>, <<"--csv", "--filter-pid">>}) =>
    exit_code = 1 /\ steps = << >>

(* ---------------- the wake handler and the wake stamp (Spec) ---------------- *)

\* C28: a firing of the wake handler for a task whose id differs from a non-zero filter
\* pid leaves the wake-stamp, on-CPU-stamp and aggregate tables and the ring unchanged;
\* with the filter 0 or equal to the id it writes the wake stamp, adds exactly 1 to the
\* task's wake counter (on a fresh all-zero aggregate when there was none) and emits one
\* WAKE record (none when the ring has no room).
C28_WakeFrame ==
  [][ fired'.op = "wake" =>
        LET p == fired'.pid
            P == cfg_map.sample_filter_pid
            old == IF p \in DOMAIN agg_by_pid THEN agg_by_pid[p] ELSE ZeroAgg
        IN
        IF P # 0 /\ P # p
          THEN /\ wake_ts' = wake_ts /\ oncpu_ts' = oncpu_ts
               /\ agg_by_pid' = agg_by_pid /\ rb' = rb
          ELSE /\ DOMAIN wake_ts' = DOMAIN wake_ts \cup {p}
               /\ \A q \in DOMAIN wake_ts' :
                    wake_ts'[q] = IF q = p THEN fired'.now ELSE wake_ts[q]
               /\ oncpu_ts' = oncpu_ts
               /\ DOMAIN agg_by_pid' = DOMAIN agg_by_pid \cup {p}
               /\ \A q \in DOMAIN agg_by_pid' :
                    agg_by_pid'[q] = IF q = p THEN [old EXCEPT !.wakes = @ + 1]
                                     ELSE agg_by_pid[q]
               /\ IF bpf_ringbuf_reserve(rb)
                    THEN /\ Len(rb') = Len(rb) + 1
                         /\ SubSeq(rb', 1, Len(rb)) = rb
                         /\ Last(rb').type = EV_WAKE
                         /\ Last(rb').pid = p
                         /\ Last(rb').ts_ns = fired'.now
                    ELSE rb' = rb
    ]_vars

\* C28 witness: under filter pid 1 the second wake of task 1 overwrites its stamp,
\* brings its wake counter to 2 and emits a WAKE record
C28_Witness ==
  /\ cfg_map.sample_filter_pid = 1
  /\ fired.op = "wake" /\ fired.pid = 1 /\ fired.ok
  /\ wake_ts[1] = fired.now /\ agg_by_pid[1].wakes = 2
  /\ Last(rb).type = EV_WAKE /\ Last(rb).pid = 1

\* under filter pid 1 a wake of task 65537 fires on non-empty tables and is ignored
C28_FilteredWitness ==
  /\ cfg_map.sample_filter_pid = 1
  /\ fired.op = "wake" /\ fired.pid = 65537 /\ ~fired.passed
  /\ wake_ts # Empty /\ rb # << >>

C30_RunSlice ==
  [][ (fired'.op = "switch" /\ fired'.ok /\ fired'.prev # 0
         /\ hist[fired'.prev].on # None) =>
        Last(rb').sw.run_ns = fired'.now - hist[fired'.prev].on
    ]_vars

\* C30 with no filter set: the last switch-out after the exit handler is what is left
C30_NoFilter ==
  [][ (fired'.op = "switch" /\ fired'.ok /\ fired'.prev # 0
         /\ cfg_map.sample_filter_pid = 0
         /\ hist[fired'.prev].on # None) =>
        Last(rb').sw.run_ns = fired'.now - hist[fired'.prev].on
    ]_vars

\* C30 for tasks that have not exited, under a filter: the skipped switch-in is what is left
C30_NoExit ==
  [][ (fired'.op = "switch" /\ fired'.ok /\ fired'.prev # 0
         /\ life[fired'.prev] = "alive" /\ TGID(fired'.prev) = fired'.prev
         /\ hist[fired'.prev].on # None) =>
        Last(rb').sw.run_ns = fired'.now - hist[fired'.prev].on
    ]_vars

\* C30 where it holds: prev's switch-in was processed and its process has not exited since
C30_ProcessedSlice ==
  [][ (fired'.op = "switch" /\ fired'.ok /\ fired'.prev # 0
         /\ hist[fired'.prev].on # None
         /\ hist[fired'.prev].in = hist[fired'.prev].on
         /\ hist[fired'.prev].exit < hist[fired'.prev].on) =>
        Last(rb').sw.run_ns = fired'.now - hist[fired'.prev].on
    ]_vars

(* ---------------- the first-exec timestamp (Spec) ---------------- *)

\* the kernel side of C31: the exec handler sets exec_ts_ns of its process when it is
\* unset, and nothing changes a value that is set
C31_KernelSetOnce ==
  [][ /\ \A p \in DOMAIN agg_by_pid :
           agg_by_pid[p].exec_ts_ns # 0 =>
             (p \in DOMAIN agg_by_pid' /\ agg_by_pid'[p].exec_ts_ns = agg_by_pid[p].exec_ts_ns)
      /\ (fired'.op = "exec" /\ fired'.passed) =>
           LET p == fired'.pid IN
           /\ p \in DOMAIN agg_by_pid'
           /\ (p \notin DOMAIN agg_by_pid \/ agg_by_pid[p].exec_ts_ns = 0) =>
                agg_by_pid'[p].exec_ts_ns = fired'.now
      /\ \A p \in DOMAIN agg_by_pid' :
           (fired'.op # "exec" /\ p \notin DOMAIN agg_by_pid) => agg_by_pid'[p].exec_ts_ns = 0
    ]_vars

\* the user side of C31 per slot of agg_tbl: a first_exec_ns that is set never changes
C31_SlotSetOnce ==
  [][ \A sl \in Slots :
        agg_tbl[sl].first_exec_ns # 0 => agg_tbl'[sl].first_exec_ns = agg_tbl[sl].first_exec_ns
    ]_vars

\* the user side of C31 per task id: the value stored for an id is the timestamp of the
\* first EXEC record consumed for that id
C31_UserPerId ==
  \A T \in PIDS :
    seen[T].exec # None => agg_tbl[A(T)].first_exec_ns = seen[T].exec

\* C31: the first-exec timestamp of a task's aggregate is assigned at most once, on the
\* kernel side and on the user side: after any EXEC records for an id the value stored
\* for that id is the timestamp of the first of them, and no later record changes it.
C31_FirstExecOnce == C31_KernelSetOnce /\ []C31_UserPerId

(* ---------------- the tables at capacity ---------------- *)

\* As Init with no filter, but the tables hold the entries of other tasks of the
\* system: the tables are at their capacity, or one entry short of it.
InitFull ==
  /\ \E n \in {MAX_ENTRIES - 1, MAX_ENTRIES} :
       /\ wake_ts = Occupied(n)
       /\ oncpu_ts = Occupied(n)
       /\ agg_by_pid = Occupied(n)
  /\ rb = << >>
  /\ agg_tbl = [s \in Slots |-> ZeroUser]
  /\ clock = 0
  /\ life = [p \in PIDS |-> IF p = 2 THEN "dead" ELSE "alive"]
  /\ fired = NoFiring
  /\ dropped = FALSE
  /\ seen = [p \in PIDS \cup {0} |->
               [run |-> 0, wait |-> 0, n |-> 0, wakes |-> 0, switches |-> 0, exec |-> None]]
  /\ hist = [p \in PIDS |-> [wake |-> None, in |-> None, out |-> None, exit |-> None,
                              nw |-> 0, got |-> 0, on |-> None]]
  /\ pc = [c \in CPUS |-> "idle"]
  /\ loc = [c \in CPUS |-> NoLocals]
  /\ out = << >>
  /\ late_polls = 0
  /\ g_stop = 0
  /\ exit_code = None
  /\ build = "base"
  /\ Parsed(<<"--mode", "starvation">>)
  /\ cfg_map = CfgRecord(g_wait_alert_ns, g_filter_pid)
  /\ cur = [c \in CPUS |-> IF c = 0 THEN 1 ELSE 0]
  /\ mpc = "polling"
  /\ steps = <<"load", "cfg", "attach", "ring">>

SpecFull == InitFull /\ [][Next]_vars

(* ---------------- a table at capacity (SpecFull) ---------------- *)

\* the ids a handler of this system can fire for
Ids == PIDS \cup {0}

\* the table m is at its fixed capacity
Full(m) == Entries(m) = MAX_ENTRIES

\* the entries of m without those of the other tasks: a table with room
Roomy(m) == [k \in (DOMAIN m) \ {OTHERS} |-> m[k]]

\* the tables with room, the ring as it is
RoomyKS == [wake_ts |-> Roomy(wake_ts), oncpu_ts |-> Roomy(oncpu_ts),
            agg_by_pid |-> Roomy(agg_by_pid), rb |-> rb]

\* what a firing may do to one table: t before, u after, r after the same firing on
\* the tables with room
AtCapacity(t, u, r) ==
  /\ OTHERS \in DOMAIN u /\ u[OTHERS] = t[OTHERS]
  /\ \A k \in Ids :
       /\ (k \notin DOMAIN t /\ Full(t)) => k \notin DOMAIN u
       /\ k \in DOMAIN t => (k \in DOMAIN u) = (k \in DOMAIN r)
       /\ k \in DOMAIN u => (k \in DOMAIN r /\ u[k] = r[k])

\* C32: when a table is at its capacity, a handler firing for an id without an entry
\* fails to insert it, no existing entry is modified or evicted, every other update of
\* the firing is done and its event is emitted as when the tables have room; entries
\* that exist are updated exactly as when the table is not full.
C32_TableFull ==
  [][ fired'.op \in Probes =>
        LET r == Replay(RoomyKS, fired') IN
        /\ AtCapacity(wake_ts, wake_ts', r.wake_ts)
        /\ AtCapacity(oncpu_ts, oncpu_ts', r.oncpu_ts)
        /\ AtCapacity(agg_by_pid, agg_by_pid', r.agg_by_pid)
        /\ rb' = r.rb
    ]_vars

\* a switch found the aggregate table full: the outgoing task's entry was updated, the
\* incoming task got none, and the SWITCH record is in the ring
C32_Witness ==
  /\ fired.op = "switch" /\ fired.ok
  /\ Full(agg_by_pid)
  /\ fired.next \notin DOMAIN agg_by_pid
  /\ fired.prev \in DOMAIN agg_by_pid /\ agg_by_pid[fired.prev].switches > 0
  /\ rb # << >> /\ Last(rb).type = EV_SWITCH /\ Last(rb).ts_ns = fired.now

\* a wake found the wake-stamp table full: no stamp was stored, the wake was counted
\* and the WAKE record is in the ring
C32_WakeWitness ==
  /\ fired.op = "wake" /\ fired.ok
  /\ Full(wake_ts) /\ fired.pid \notin DOMAIN wake_ts
  /\ fired.pid \in DOMAIN agg_by_pid /\ agg_by_pid[fired.pid].wakes > 0
  /\ rb # << >> /\ Last(rb).type = EV_WAKE /\ Last(rb).ts_ns = fired.now

\* a switch found the on-CPU table full: the incoming task got no stamp, its wake stamp
\* was consumed and the SWITCH record is in the ring
C32_OnCpuWitness ==
  /\ fired.op = "switch" /\ fired.ok /\ fired.next # 0
  /\ Full(oncpu_ts) /\ fired.next \notin DOMAIN oncpu_ts
  /\ fired.wait_ns > 0 /\ fired.next \notin DOMAIN wake_ts
  /\ rb # << >> /\ Last(rb).type = EV_SWITCH /\ Last(rb).ts_ns = fired.now

(* ---------------- the fields of a SWITCH record (Spec) ---------------- *)

\* C33: every SWITCH record the switch handler submits has all of its fields assigned by
\* that firing: ts = now, kind = SWITCH, pid = next_pid, header name = the next task's
\* name, and the payload prev_pid, next_pid, prev_name, next_name, run_ns, wait_ns,
\* prev_cpu and next_cpu; no field keeps what the reserved slot held before.
C33_SwitchFieldsAssigned ==
  (fired.op = "switch" /\ fired.ok) =>
    LET e == Last(rb) IN
    /\ e.comm # Stale /\ e.comm = Comm(fired.next)
    /\ e.sw.prev_cpu # Stale /\ e.sw.next_cpu # Stale
    /\ e.ts_ns = fired.now /\ e.type = EV_SWITCH /\ e.pid = fired.next
    /\ e.sw.prev_pid = fired.prev /\ e.sw.next_pid = fired.next
    /\ e.sw.prev_comm = Comm(fired.prev) /\ e.sw.next_comm = Comm(fired.next)
    /\ e.sw.run_ns = fired.run_ns /\ e.sw.wait_ns = fired.wait_ns

\* the fields the switch handler does assign are those of its firing
C33_AssignedFields ==
  (fired.op = "switch" /\ fired.ok) =>
    LET e == Last(rb) IN
    /\ e.ts_ns = fired.now /\ e.type = EV_SWITCH /\ e.pid = fired.next
    /\ e.sw.prev_pid = fired.prev /\ e.sw.next_pid = fired.next
    /\ e.sw.prev_comm = Comm(fired.prev) /\ e.sw.next_comm = Comm(fired.next)
    /\ e.sw.run_ns = fired.run_ns /\ e.sw.wait_ns = fired.wait_ns

(* ---------------- the subtractions of the switch handler (SpecConc) ---------------- *)

\* C34: in every emitted SWITCH record the unsigned 64-bit subtractions did not wrap:
\* the stamp subtracted was never later than the handler's own now, so run_ns and
\* wait_ns are at most the record's timestamp, under every interleaving of the switch
\* handler with a wake or switch handler for the same task id on another CPU.
C34_NoWrap ==
  \A i \in 1..Len(rb) :
    rb[i].type = EV_SWITCH =>
      /\ LeU64(rb[i].sw.wait_ns, rb[i].ts_ns)
      /\ LeU64(rb[i].sw.run_ns, rb[i].ts_ns)

\* the same for run_ns alone
C34_RunNoWrap ==
  \A i \in 1..Len(rb) :
    rb[i].type = EV_SWITCH => LeU64(rb[i].sw.run_ns, rb[i].ts_ns)

\* with one handler at a time no subtraction wraps: the stamps in the tables are at
\* most the clock
C34_Sequential ==
  /\ \A p \in DOMAIN wake_ts : wake_ts[p] <= clock
  /\ \A p \in DOMAIN oncpu_ts : oncpu_ts[p] <= clock
  /\ \A i \in 1..Len(rb) :
       rb[i].type = EV_SWITCH =>
         /\ 0 <= rb[i].sw.wait_ns /\ rb[i].sw.wait_ns <= rb[i].ts_ns
         /\ 0 <= rb[i].sw.run_ns /\ rb[i].sw.run_ns <= rb[i].ts_ns

(* ---------------- agg_touch on two CPUs (SpecConc) ---------------- *)

\* the handler on CPU c has just executed the insert of agg_touch
Inserted(c) == pc[c] = "at_insert" /\ pc'[c] = "at_relookup"

\* C35: agg_touch never resets an existing aggregate: of two handlers that call it for
\* the same id without an entry, one inserts the zero entry and the insert of the other
\* leaves the entry, with every count already added to it, as it is; both then find the
\* one entry of that id. No other entry is changed by an insert.
C35_InsertIfAbsent ==
  [][ \A c \in CPUS :
        Inserted(c) =>
          LET k == loc[c].key IN
          /\ DOMAIN agg_by_pid' = DOMAIN agg_by_pid \cup {k}
          /\ \A p \in DOMAIN agg_by_pid : agg_by_pid'[p] = agg_by_pid[p]
          /\ k \notin DOMAIN agg_by_pid => agg_by_pid'[k] = ZeroAgg
    ]_vars

\* both handlers missed the entry of the same id and both have executed their insert:
\* the id has one entry, the zero entry both are about to look up
C35_Witness ==
  \E c \in CPUS, d \in CPUS :
    /\ c # d
    /\ pc[c] = "at_relookup" /\ pc[d] = "at_relookup"
    /\ loc[d].key = loc[c].key
    /\ loc[c].key \in DOMAIN agg_by_pid
    /\ agg_by_pid[loc[c].key] = ZeroAgg

\* a handler has executed its insert, and the entry of its id holds what the handler on
\* the other CPU, past its own agg_touch for that id, has added
C35_CountsWitness ==
  \E c \in CPUS, d \in CPUS :
    /\ c # d
    /\ pc[c] = "at_relookup"
    /\ loc[d].op # "none" /\ loc[d].key = loc[c].key
    /\ pc[d] \in {"st_count", "emit"}
    /\ loc[c].key \in DOMAIN agg_by_pid
    /\ agg_by_pid[loc[c].key] # ZeroAgg

\* an entry that holds counts is never a zero entry again
C35_NeverZeroAgain ==
  [][ \A p \in DOMAIN agg_by_pid :
        agg_by_pid[p] # ZeroAgg => (p \in DOMAIN agg_by_pid' /\ agg_by_pid'[p] # ZeroAgg)
    ]_vars

====
